---- MODULE Spec2Model ----
(***************************************************************************)
(* The ingestion pipeline of go-microservices: the two ingest services     *)
(* (cmd/ingest-events, cmd/ingest-marketdata), their JSON decoding, the    *)
(* flattening of a market envelope into rows and the transactional write   *)
(* of the rows into the ClickHouse tables.                                 *)
(***************************************************************************)
EXTENDS Integers, Sequences, FiniteSets, TLC

(***************************************************************************)
(* JSON payloads.  A payload is a JSON value, or bytes that are no JSON.   *)
(* A JSON string is a sequence of one-character strings, so that the       *)
(* parsing of a time string is computed from its characters.               *)
(***************************************************************************)
JNull == [t |-> "null"]
JInvalid == [t |-> "invalid"]
JStr(s) == [t |-> "string", v |-> s]
JNum(n) == [t |-> "number", v |-> n]
JArr(s) == [t |-> "array", v |-> s]
JObj(f) == [t |-> "object", v |-> f]

JBool(b) == [t |-> "bool", v |-> b]

\* Go errors; Nil is the nil error.
Nil == [kind |-> "nil"]
SyntaxError == [kind |-> "SyntaxError"]
UnmarshalTypeError(value, type) == [kind |-> "UnmarshalTypeError", value |-> value, type |-> type]
ParseError(msg) == [kind |-> "ParseError", msg |-> msg]

Digits == {"0", "1", "2", "3", "4", "5", "6", "7", "8", "9"}

DigitVal(c) == CASE c = "0" -> 0 [] c = "1" -> 1 [] c = "2" -> 2 [] c = "3" -> 3
                 [] c = "4" -> 4 [] c = "5" -> 5 [] c = "6" -> 6 [] c = "7" -> 7
                 [] c = "8" -> 8 [] c = "9" -> 9

IsDigit(s, i) == i >= 1 /\ i <= Len(s) /\ s[i] \in Digits

IsDigits(s, i, j) == \A k \in i..j : IsDigit(s, k)

RECURSIVE Atoi(_, _, _)
Atoi(s, i, j) == IF j < i THEN 0 ELSE 10 * Atoi(s, i, j - 1) + DigitVal(s[j])

IsLit(s, i, c) == i >= 1 /\ i <= Len(s) /\ s[i] = c

(***************************************************************************)
(* time.Time values: the civil date and time in UTC and the nanoseconds.   *)
(* The zero Time is January 1, year 1, 00:00:00 UTC.                       *)
(***************************************************************************)
Date(Y, M, D, h, m, s, ns) == [Y |-> Y, M |-> M, D |-> D, h |-> h, m |-> m, s |-> s, ns |-> ns]

ZeroTime == Date(1, 1, 1, 0, 0, 0, 0)

isLeap(Y) == Y % 4 = 0 /\ (Y % 100 # 0 \/ Y % 400 = 0)

daysIn(M, Y) == IF M = 2 THEN (IF isLeap(Y) THEN 29 ELSE 28)
                ELSE IF M \in {4, 6, 9, 11} THEN 30 ELSE 31

RECURSIVE Pow10(_)
Pow10(n) == IF n = 0 THEN 1 ELSE 10 * Pow10(n - 1)

\* parseNanoseconds: the digits s[i..j] after the separator, at most nine used.
parseNanoseconds(s, i, j) ==
    LET n == IF j - i + 1 > 9 THEN 9 ELSE j - i + 1
    IN Atoi(s, i, i + n - 1) * Pow10(9 - n)

(***************************************************************************)
(* time.Parse("2006-01-02 15:04:05", s).  The year is four digits; month,  *)
(* day, minute and second are two digits; the hour ("15") is one or two    *)
(* digits; a fractional second may follow the seconds; nothing else may    *)
(* follow.  Month, day, hour, minute and second are range-checked.  On an  *)
(* error the zero Time is returned with the error.                         *)
(***************************************************************************)
ParseFields(s, sep, strictHour) ==
    LET hl == IF IsDigit(s, 13) \/ strictHour THEN 2 ELSE 1
        e == 17 + hl
        frac == Len(s) >= e + 2 /\ s[e + 1] \in {".", ","} /\ IsDigit(s, e + 2)
        shape == /\ IsDigits(s, 1, 4) /\ IsLit(s, 5, "-")
                 /\ IsDigits(s, 6, 7) /\ IsLit(s, 8, "-")
                 /\ IsDigits(s, 9, 10) /\ IsLit(s, 11, sep)
                 /\ IsDigits(s, 12, 11 + hl) /\ IsLit(s, 12 + hl, ":")
                 /\ IsDigits(s, 13 + hl, 14 + hl) /\ IsLit(s, 15 + hl, ":")
                 /\ IsDigits(s, 16 + hl, e)
        Y == Atoi(s, 1, 4)
        M == Atoi(s, 6, 7)
        D == Atoi(s, 9, 10)
        h == Atoi(s, 12, 11 + hl)
        m == Atoi(s, 13 + hl, 14 + hl)
        sec == Atoi(s, 16 + hl, e)
        last == IF frac THEN CHOOSE k \in (e + 2)..Len(s) :
                                /\ IsDigits(s, e + 2, k)
                                /\ ~IsDigit(s, k + 1)
                ELSE e
        ns == IF frac THEN parseNanoseconds(s, e + 2, last) ELSE 0
        range == /\ M >= 1 /\ M <= 12 /\ h < 24 /\ m < 60 /\ sec < 60
                 /\ D >= 1 /\ D <= daysIn(M, Y)
    IN IF ~shape THEN [err |-> ParseError("cannot parse"), t |-> ZeroTime, rest |-> 0]
       ELSE IF ~range THEN [err |-> ParseError("out of range"), t |-> ZeroTime, rest |-> 0]
       ELSE [err |-> Nil, t |-> Date(Y, M, D, h, m, sec, ns), rest |-> last + 1]

NoExtraText(r, s) ==
    IF r.err # Nil THEN [err |-> r.err, t |-> ZeroTime]
    ELSE IF r.rest <= Len(s) THEN [err |-> ParseError("extra text"), t |-> ZeroTime]
    ELSE [err |-> Nil, t |-> r.t]

timeParse(s) == NoExtraText(ParseFields(s, " ", FALSE), s)

(***************************************************************************)
(* Time.UnmarshalJSON of a JSON string: RFC 3339 with two-digit hour and   *)
(* the separator "T".  Of the zone designators only "Z" is modelled: the   *)
(* payloads of the model carry UTC times or text that is no time at all.   *)
(***************************************************************************)
ZoneZ(r, s) ==
    IF r.err # Nil THEN [err |-> r.err, t |-> ZeroTime]
    ELSE IF \E k \in 1..Len(s) : s[k] = "," THEN [err |-> ParseError("cannot parse"), t |-> ZeroTime]
    ELSE IF r.rest = Len(s) /\ s[r.rest] = "Z" THEN [err |-> Nil, t |-> r.t]
    ELSE [err |-> ParseError("cannot parse zone"), t |-> ZeroTime]

parseRFC3339(s) == ZoneZ(ParseFields(s, "T", TRUE), s)

\* A variant that takes the number for seconds: time.Unix(msec, 0).
UnixSeconds(msec) == [sec |-> msec, nsec |-> 0]

\* time.UnixMilli(msec): seconds and nanoseconds since the Unix epoch.
UnixMilli(msec) == [sec |-> msec \div 1000, nsec |-> (msec % 1000) * 1000000]

(***************************************************************************)
(* encoding/json: the decoding of one field of a JSON object into a Go     *)
(* field.  An absent key and a JSON null leave the field at its zero       *)
(* value; a value of another JSON type is an UnmarshalTypeError.           *)
(***************************************************************************)
Has(o, k) == k \in DOMAIN o /\ o[k].t # "null"

FieldString(o, k, zero) ==
    IF ~Has(o, k) THEN [err |-> Nil, v |-> zero]
    ELSE IF o[k].t = "string" THEN [err |-> Nil, v |-> o[k].v]
    ELSE [err |-> UnmarshalTypeError(o[k].t, "string"), v |-> zero]

FieldNumber(o, k) ==
    IF ~Has(o, k) THEN [err |-> Nil, v |-> 0]
    ELSE IF o[k].t = "number" THEN [err |-> Nil, v |-> o[k].v]
    ELSE [err |-> UnmarshalTypeError(o[k].t, "number"), v |-> 0]

FieldBool(o, k) ==
    IF ~Has(o, k) THEN [err |-> Nil, v |-> FALSE]
    ELSE IF o[k].t = "bool" THEN [err |-> Nil, v |-> o[k].v]
    ELSE [err |-> UnmarshalTypeError(o[k].t, "bool"), v |-> FALSE]

\* The first error of a sequence of decoding results, Nil when there is none.
FirstErr(rs) ==
    IF \A i \in 1..Len(rs) : rs[i].err = Nil THEN Nil
    ELSE rs[CHOOSE i \in 1..Len(rs) :
               rs[i].err # Nil /\ \A j \in 1..(i - 1) : rs[j].err = Nil].err

(***************************************************************************)
(* models.Event and its decoding.  Context is a map of strings; the nil    *)
(* map is the function with the empty domain.                              *)
(***************************************************************************)
Event(ts, level, source, message, context) ==
    [Timestamp |-> ts, Level |-> level, Source |-> source, Message |-> message,
     Context |-> context]

ZeroEvent == Event(ZeroTime, "", "", "", <<>>)

TimeField(r) == [err |-> r.err, v |-> r.t]

FieldTime(o, k) ==
    IF ~Has(o, k) THEN [err |-> Nil, v |-> ZeroTime]
    ELSE IF o[k].t = "string" THEN TimeField(parseRFC3339(o[k].v))
    ELSE [err |-> ParseError("input is not a JSON string"), v |-> ZeroTime]

FieldStringMap(o, k) ==
    IF ~Has(o, k) THEN [err |-> Nil, v |-> <<>>]
    ELSE IF o[k].t # "object" THEN [err |-> UnmarshalTypeError(o[k].t, "map[string]string"), v |-> <<>>]
    ELSE IF \E x \in DOMAIN o[k].v : o[k].v[x].t \notin {"string", "null"}
         THEN [err |-> UnmarshalTypeError("value", "string"), v |-> <<>>]
    ELSE [err |-> Nil,
          v |-> [x \in DOMAIN o[k].v |-> IF o[k].v[x].t = "null" THEN "" ELSE o[k].v[x].v]]

\* The struct decoded from the fields of a JSON object, or the first error.
EventOf(ts, level, source, message, context) ==
    IF FirstErr(<<ts, level, source, message, context>>) # Nil
    THEN [err |-> FirstErr(<<ts, level, source, message, context>>), v |-> ZeroEvent]
    ELSE [err |-> Nil, v |-> Event(ts.v, level.v, source.v, message.v, context.v)]

\* json.Unmarshal(body, &singleEvent)
UnmarshalEvent(j) ==
    IF j.t = "invalid" THEN [err |-> SyntaxError, v |-> ZeroEvent]
    ELSE IF j.t = "null" THEN [err |-> Nil, v |-> ZeroEvent]
    ELSE IF j.t # "object" THEN [err |-> UnmarshalTypeError(j.t, "models.Event"), v |-> ZeroEvent]
    ELSE EventOf(FieldTime(j.v, "timestamp"), FieldString(j.v, "level", ""),
                 FieldString(j.v, "source", ""), FieldString(j.v, "message", ""),
                 FieldStringMap(j.v, "context"))

\* A variant that builds the slice back to front.
SliceReversed(rs) ==
    IF FirstErr(rs) # Nil THEN [err |-> FirstErr(rs), v |-> <<>>]
    ELSE [err |-> Nil, v |-> [i \in 1..Len(rs) |-> rs[Len(rs) + 1 - i].v]]

\* The slice decoded from the elements of a JSON array, or the first error.
SliceOf(rs) ==
    IF FirstErr(rs) # Nil THEN [err |-> FirstErr(rs), v |-> <<>>]
    ELSE [err |-> Nil, v |-> [i \in 1..Len(rs) |-> rs[i].v]]

\* json.Unmarshal(body, &events) with events a nil []models.Event
UnmarshalEvents(j) ==
    IF j.t = "invalid" THEN [err |-> SyntaxError, v |-> <<>>]
    ELSE IF j.t = "null" THEN [err |-> Nil, v |-> <<>>]
    ELSE IF j.t # "array" THEN [err |-> UnmarshalTypeError(j.t, "[]models.Event"), v |-> <<>>]
    ELSE SliceOf([i \in 1..Len(j.v) |-> UnmarshalEvent(j.v[i])])

(***************************************************************************)
(* The flexible decoding of handleIngest (events): the array first, then   *)
(* the single object, wrapped in a slice of one.  logged is the error that *)
(* the handler prints with log.Printf when both attempts fail: err2.       *)
(***************************************************************************)
\* A variant that forgets to put the single event into the slice.
FallbackNotWrapped(many, one) ==
    IF many.err = Nil
    THEN [ok |-> TRUE, events |-> many.v, single |-> FALSE, err |-> Nil, err2 |-> Nil, logged |-> Nil]
    ELSE IF one.err # Nil
    THEN [ok |-> FALSE, events |-> <<>>, single |-> TRUE, err |-> many.err, err2 |-> one.err,
          logged |-> one.err]
    ELSE [ok |-> TRUE, events |-> many.v, single |-> TRUE, err |-> many.err, err2 |-> Nil, logged |-> Nil]

Fallback(many, one) ==
    IF many.err = Nil
    THEN [ok |-> TRUE, events |-> many.v, single |-> FALSE, err |-> Nil, err2 |-> Nil, logged |-> Nil]
    ELSE IF one.err # Nil
    THEN [ok |-> FALSE, events |-> <<>>, single |-> TRUE, err |-> many.err, err2 |-> one.err,
          logged |-> one.err]
    ELSE [ok |-> TRUE, events |-> <<one.v>>, single |-> TRUE, err |-> many.err, err2 |-> Nil, logged |-> Nil]

DecodeEvents(body) == Fallback(UnmarshalEvents(body), UnmarshalEvent(body))

(***************************************************************************)
(* models.ApiResponse, DataStruct, TokenInfo, Ohlc and their decoding.     *)
(* Ohlc is a pointer in TokenInfo: NoOhlc is the nil pointer.              *)
(***************************************************************************)
NoOhlc == [nil |-> TRUE]

NumberFields == <<"lastPrice", "closePrice", "lastQuantity", "buyQuantity", "sellQuantity",
                  "volume", "averagePrice", "oi", "poi", "oiDayHigh", "oiDayLow",
                  "netChange", "lowerCircuitLimit", "upperCircuitLimit", "yl", "yh">>

OhlcFields == <<"open", "high", "low", "close", "volume">>

UnmarshalOhlc(o, k) ==
    IF ~Has(o, k) THEN [err |-> Nil, v |-> NoOhlc]
    ELSE IF o[k].t # "object" THEN [err |-> UnmarshalTypeError(o[k].t, "models.Ohlc"), v |-> NoOhlc]
    ELSE LET f == [i \in 1..Len(OhlcFields) |-> FieldNumber(o[k].v, OhlcFields[i])]
         IN [err |-> FirstErr(f),
             v |-> [nil |-> FALSE, Open |-> f[1].v, High |-> f[2].v, Low |-> f[3].v,
                    Close |-> f[4].v, Volume |-> f[5].v]]

UnmarshalTokenInfo(j) ==
    LET o == IF j.t = "object" THEN j.v ELSE <<>>
        ts == FieldString(o, "timestamp", <<>>)
        ltt == FieldString(o, "lastTradeTime", <<>>)
        n == [i \in 1..Len(NumberFields) |-> FieldNumber(o, NumberFields[i])]
        ohlc == UnmarshalOhlc(o, "ohlc")
        typeErr == IF j.t \in {"object", "null"} THEN Nil
                   ELSE UnmarshalTypeError(j.t, "models.TokenInfo")
    IN [err |-> FirstErr(<<[err |-> typeErr], ts, ltt, [err |-> FirstErr(n)], ohlc>>),
        v |-> [Timestamp |-> ts.v, LastTradeTime |-> ltt.v,
               LastPrice |-> n[1].v, ClosePrice |-> n[2].v, LastQuantity |-> n[3].v,
               BuyQuantity |-> n[4].v, SellQuantity |-> n[5].v, Volume |-> n[6].v,
               AveragePrice |-> n[7].v, Oi |-> n[8].v, Poi |-> n[9].v,
               OiDayHigh |-> n[10].v, OiDayLow |-> n[11].v, NetChange |-> n[12].v,
               LowerCircuitLimit |-> n[13].v, UpperCircuitLimit |-> n[14].v,
               Yl |-> n[15].v, Yh |-> n[16].v, Ohlc |-> ohlc.v]]

ZeroData == [RequestID |-> "", TimeInMillis |-> 0, TokenData |-> <<>>]

UnmarshalTokenData(o, k) ==
    IF ~Has(o, k) THEN [err |-> Nil, v |-> <<>>]
    ELSE IF o[k].t # "object"
         THEN [err |-> UnmarshalTypeError(o[k].t, "map[string]models.TokenInfo"), v |-> <<>>]
    ELSE LET m == [x \in DOMAIN o[k].v |-> UnmarshalTokenInfo(o[k].v[x])]
         IN IF \E x \in DOMAIN m : m[x].err # Nil
            THEN [err |-> m[CHOOSE x \in DOMAIN m : m[x].err # Nil].err, v |-> <<>>]
            ELSE [err |-> Nil, v |-> [x \in DOMAIN m |-> m[x].v]]

UnmarshalData(o, k) ==
    IF ~Has(o, k) THEN [err |-> Nil, v |-> ZeroData]
    ELSE IF o[k].t # "object" THEN [err |-> UnmarshalTypeError(o[k].t, "models.DataStruct"), v |-> ZeroData]
    ELSE LET id == FieldString(o[k].v, "request_id", "")
             ms == FieldNumber(o[k].v, "time_in_millis")
             td == UnmarshalTokenData(o[k].v, "token_data")
         IN [err |-> FirstErr(<<id, ms, td>>),
             v |-> [RequestID |-> id.v, TimeInMillis |-> ms.v, TokenData |-> td.v]]

\* json.Unmarshal(body, &apiResp)
UnmarshalApiResponse(j) ==
    IF j.t = "invalid" THEN [err |-> SyntaxError, v |-> [Data |-> ZeroData, Success |-> FALSE]]
    ELSE IF j.t = "null" THEN [err |-> Nil, v |-> [Data |-> ZeroData, Success |-> FALSE]]
    ELSE IF j.t # "object"
         THEN [err |-> UnmarshalTypeError(j.t, "models.ApiResponse"), v |-> [Data |-> ZeroData, Success |-> FALSE]]
    ELSE LET data == UnmarshalData(j.v, "data")
             success == FieldBool(j.v, "success")
         IN [err |-> FirstErr(<<data, success>>), v |-> [Data |-> data.v, Success |-> success.v]]

(***************************************************************************)
(* The loop body of handleIngest (market data): one instrument of          *)
(* token_data becomes the 26 arguments of one INSERT.  Both time.Parse     *)
(* errors are discarded (ts, _ := ...), which leaves the zero Time.        *)
(***************************************************************************)
Sentinel == <<"1","9","7","0","-","0","1","-","0","1"," ","0","5",":","3","0",":","0","0">>

EpochMidnight == <<"1","9","7","0","-","0","1","-","0","1"," ","0","0",":","0","0",":","0","0">>

\* A variant that rewrites the sentinel in the timestamp as well.
TimestampSentinelRewritten(tokenInfo) ==
    timeParse(IF tokenInfo.Timestamp = Sentinel THEN EpochMidnight ELSE tokenInfo.Timestamp).t

\* ts, _ := time.Parse("2006-01-02 15:04:05", tokenInfo.Timestamp)
Timestamp(tokenInfo) == timeParse(tokenInfo.Timestamp).t

\* A variant that takes the snapshot's timestamp when lastTradeTime does not
\* parse.
LastTradeTimeOrTimestamp(tokenInfo) ==
    LET ltt == timeParse(IF tokenInfo.LastTradeTime = Sentinel THEN EpochMidnight
                         ELSE tokenInfo.LastTradeTime)
    IN IF ltt.err = Nil THEN ltt.t ELSE timeParse(tokenInfo.Timestamp).t

\* A variant without the rewriting of the sentinel.
LastTradeTimeAsGiven(tokenInfo) == timeParse(tokenInfo.LastTradeTime).t

\* lttStr with the sentinel rewritten, then ltt, _ := time.Parse(..., lttStr)
LastTradeTime(tokenInfo) ==
    timeParse(IF tokenInfo.LastTradeTime = Sentinel THEN EpochMidnight
              ELSE tokenInfo.LastTradeTime).t

\* A variant that falls back on the last price when ohlc is missing.
OhlcOrLastPrice(tokenInfo) ==
    IF tokenInfo.Ohlc.nil
    THEN [Open |-> tokenInfo.LastPrice, High |-> tokenInfo.LastPrice,
          Low |-> tokenInfo.LastPrice, Close |-> tokenInfo.LastPrice, Volume |-> 0]
    ELSE [Open |-> tokenInfo.Ohlc.Open, High |-> tokenInfo.Ohlc.High,
          Low |-> tokenInfo.Ohlc.Low, Close |-> tokenInfo.Ohlc.Close,
          Volume |-> tokenInfo.Ohlc.Volume]

\* var ohlcOpen, ohlcHigh, ohlcLow, ohlcClose float64; var ohlcVolume int64,
\* declared in the loop body and set when tokenInfo.Ohlc != nil
Ohlc(tokenInfo) ==
    IF tokenInfo.Ohlc.nil
    THEN [Open |-> 0, High |-> 0, Low |-> 0, Close |-> 0, Volume |-> 0]
    ELSE [Open |-> tokenInfo.Ohlc.Open, High |-> tokenInfo.Ohlc.High,
          Low |-> tokenInfo.Ohlc.Low, Close |-> tokenInfo.Ohlc.Close,
          Volume |-> tokenInfo.Ohlc.Volume]

Flatten(requestID, responseTime, tokenName, tokenInfo) ==
       [RequestID |-> requestID, ResponseTime |-> responseTime, TokenName |-> tokenName,
        Timestamp |-> Timestamp(tokenInfo), LastTradeTime |-> LastTradeTime(tokenInfo),
        LastPrice |-> tokenInfo.LastPrice, ClosePrice |-> tokenInfo.ClosePrice,
        LastQuantity |-> tokenInfo.LastQuantity, BuyQuantity |-> tokenInfo.BuyQuantity,
        SellQuantity |-> tokenInfo.SellQuantity, Volume |-> tokenInfo.Volume,
        AveragePrice |-> tokenInfo.AveragePrice, Oi |-> tokenInfo.Oi, Poi |-> tokenInfo.Poi,
        OiDayHigh |-> tokenInfo.OiDayHigh, OiDayLow |-> tokenInfo.OiDayLow,
        NetChange |-> tokenInfo.NetChange,
        LowerCircuitLimit |-> tokenInfo.LowerCircuitLimit,
        UpperCircuitLimit |-> tokenInfo.UpperCircuitLimit,
        Yl |-> tokenInfo.Yl, Yh |-> tokenInfo.Yh,
        OhlcOpen |-> Ohlc(tokenInfo).Open, OhlcHigh |-> Ohlc(tokenInfo).High,
        OhlcLow |-> Ohlc(tokenInfo).Low, OhlcClose |-> Ohlc(tokenInfo).Close,
        OhlcVolume |-> Ohlc(tokenInfo).Volume]

\* A variant in which a key may be visited again instead of another.
RangeWithRepeats(m) == [1..Cardinality(DOMAIN m) -> DOMAIN m]

\* The orders in which a range over a Go map may visit its keys: any order,
\* every key once.
RangeOrders(m) ==
    {o \in [1..Cardinality(DOMAIN m) -> DOMAIN m] :
        \A i, j \in DOMAIN o : i # j => o[i] # o[j]}

\* len(apiResp.Data.TokenData)
IngestedCount(resp) == Cardinality(DOMAIN resp.Data.TokenData)

(***************************************************************************)
(* State.  Every request is one run of a handleIngest; requests of both    *)
(* services run concurrently, one goroutine each, and meet in the store.   *)
(***************************************************************************)
NumReq == 2

Reqs == 1..NumReq

VARIABLES
    pc,        \* request -> "idle", "prepare", "exec", "commit", "done"; "waiting" while
               \* the store does not answer an insert
    svc,       \* request -> "none", "events", "marketdata"
    body,      \* request -> the payload read from r.Body
    dec,       \* request -> the outcome of the flexible decoding (events): the slice and the errors
    apiResp,   \* request -> the decoded models.ApiResponse (market data)
    order,     \* request -> the order in which the range visits TokenData
    n,         \* request -> the number of loop iterations completed
    tx,        \* request -> the transaction in the store: its state and the rows executed in it
    calls,     \* request -> the store calls made so far, each with its outcome
    resp,      \* request -> the HTTP response: status (0: none yet) and the JSON documents written
    table,     \* table name -> the committed rows, each tagged with the call that wrote it
    cfg,       \* the *Config of the market poller, NoConfig until loadConfig has returned it
    now,       \* the last reading of time.Now() by the poller, in the configured zone
    poller,    \* the market poller: its position, the gate's answer in the current cycle,
               \* the HTTP calls of the current cycle, the cycles run, the gate's answers so far
    proc,      \* service -> the position of its main: "start", "initialized", "serving", "exited"
    schema,    \* the tables that exist in the store
    query,     \* the last response of handleQuery (query-events): status (0: none yet), the
               \* events returned, and the number of rows committed when it read the table
    results,   \* the last response of handleQuery (query-marketdata): status (0: none yet),
               \* the error met, the rows returned, and the number of rows committed when it
               \* read the table
    fetch,     \* the request of handleFetch (on-demand fetcher): its position, its method
               \* and body, the decoded instruments, the HTTP calls made, the response
               \* status (0: none), whether the handler panicked, and the statuses of the
               \* requests answered before it
    load,      \* the load tester: the flags, the position of main, the WaitGroup counter,
               \* the position of every worker, the four counters, the results printed
    db         \* service -> the call of database.Connect by its main, where it is followed
               \* step by step: its position, the outcomes of the pings so far, the sleeps,
               \* the pool and the error returned

ingestVars == <<pc, svc, body, dec, apiResp, order, n, tx, calls, resp, table>>

\* What the requests change, but for the table.
requestVars == <<pc, svc, body, dec, apiResp, order, n, tx, calls, resp>>

pollerVars == <<cfg, now, poller>>

mainVars == <<proc, schema>>

vars == <<pc, svc, body, dec, apiResp, order, n, tx, calls, resp, table, cfg, now, poller,
          proc, schema, query, results, fetch, load, db>>

ZeroApiResponse == [Data |-> ZeroData, Success |-> FALSE]

NotDecoded == [ok |-> FALSE, events |-> <<>>, single |-> FALSE, err |-> Nil, err2 |-> Nil, logged |-> Nil]

NoTx == [state |-> "none", rows |-> <<>>]

NoConfig == [loaded |-> FALSE]

\* The instant at which the poller process is started (a Thursday).
Boot == Date(2024, 2, 29, 10, 0, 0, 0)

Services == {"events", "marketdata"}

TableName(service) == IF service = "events" THEN "events" ELSE "market_data"

\* database.Connect not yet called.
NotConnected == [pc |-> "open", pings |-> <<>>, sleeps |-> 0, pool |-> FALSE, err |-> Nil]

\* handleFetch has taken no request.
NoFetch ==
    [pc |-> "idle", method |-> "", body |-> JNull, instruments |-> <<>>, sent |-> <<>>,
     status |-> 0, panicked |-> FALSE, answered |-> <<>>]

\* The load tester before flag.Parse(); the counters are zero.
NoResults == [querySuccess |-> 0, queryFailure |-> 0, ingestSuccess |-> 0, ingestFailure |-> 0]

NotRun ==
    [pc |-> "parse", numIngestBatches |-> 0, eventsPerBatch |-> 0, numQueries |-> 0,
     wg |-> 0, spawned |-> 0, worker |-> <<>>, counters |-> NoResults,
     printed |-> NoResults]

\* No request has arrived.
NoRequest ==
    /\ pc = [r \in Reqs |-> "idle"]
    /\ svc = [r \in Reqs |-> "none"]
    /\ body = [r \in Reqs |-> JNull]
    /\ dec = [r \in Reqs |-> NotDecoded]
    /\ apiResp = [r \in Reqs |-> ZeroApiResponse]
    /\ order = [r \in Reqs |-> <<>>]
    /\ n = [r \in Reqs |-> 0]
    /\ tx = [r \in Reqs |-> NoTx]
    /\ calls = [r \in Reqs |-> <<>>]
    /\ resp = [r \in Reqs |-> [status |-> 0, json |-> <<>>]]
    /\ cfg = NoConfig
    /\ now = Boot
    /\ query = [status |-> 0, events |-> <<>>, at |-> 0]
    /\ results = [status |-> 0, err |-> Nil, rows |-> <<>>, at |-> 0]
    /\ fetch = NoFetch
    /\ load = NotRun
    /\ db = [service \in Services |-> NotConnected]

\* The process of the poller before loadConfig.
Launched == [pc |-> "load", open |-> FALSE, sent |-> <<>>, cycles |-> 0, seen |-> {}]

\* No request has arrived and the poller is not started.
Quiet ==
    /\ NoRequest
    /\ poller = Launched

\* No table has a row.
Idle ==
    /\ Quiet
    /\ table = [events |-> <<>>, market_data |-> <<>>]

\* Both ingest services have started: their tables exist and they listen.
Init ==
    /\ Idle
    /\ proc = [service \in Services |-> "serving"]
    /\ schema = {"events", "market_data"}

(***************************************************************************)
(* database.Connect: sql.Open, then up to five pings three seconds apart.  *)
(***************************************************************************)
PingAttempts == 5

\* db, err := sql.Open("clickhouse", dsn) and its error branch
ConnectOpen(service, ok) ==
    /\ proc[service] = "start" /\ db[service].pc = "open"
    /\ db' = [db EXCEPT ![service] =
                 IF ok THEN [@ EXCEPT !.pc = "ping"]
                 ELSE [@ EXCEPT !.pc = "returned", !.err = [kind |-> "failed to open clickhouse db"]]]
    /\ UNCHANGED <<proc, schema, table>>

\* A variant without the loop: the error of the first ping is returned.
ConnectPingOnce(service, ok) ==
    /\ db[service].pc = "ping"
    /\ db' = [db EXCEPT ![service] =
                 IF ok THEN [@ EXCEPT !.pc = "returned", !.pings = Append(@, TRUE), !.pool = TRUE]
                 ELSE [@ EXCEPT !.pc = "returned", !.pings = Append(@, FALSE),
                                !.err = [kind |-> "failed to ping clickhouse after retries"]]]
    /\ UNCHANGED <<proc, schema, table>>

\* One iteration of for i := 0; i < 5; i++: db.Ping(); the pool is returned
\* when it succeeds; else the sleep, and after the fifth the error.
ConnectPing(service, ok) ==
    /\ db[service].pc = "ping"
    /\ db' = [db EXCEPT ![service] =
                 IF ok THEN [@ EXCEPT !.pc = "returned", !.pings = Append(@, TRUE), !.pool = TRUE]
                 ELSE IF Len(@.pings) + 1 < PingAttempts
                 THEN [@ EXCEPT !.pings = Append(@, FALSE), !.sleeps = @ + 1]
                 ELSE [@ EXCEPT !.pc = "returned", !.pings = Append(@, FALSE), !.sleeps = @ + 1,
                                !.err = [kind |-> "failed to ping clickhouse after retries"]]]
    /\ UNCHANGED <<proc, schema, table>>

\* The tables of the store and their rows.
Store == [schema |-> schema, table |-> table]

\* A variant of the statement: CREATE OR REPLACE TABLE.
CreateOrReplaceTable(store, name) ==
    [schema |-> store.schema \cup {name}, table |-> [store.table EXCEPT ![name] = <<>>]]

\* The store after CREATE TABLE IF NOT EXISTS: a table that exists is left
\* as it is, with its rows; a new one has none.
CreateTableIfNotExists(store, name) ==
    IF name \in store.schema THEN store
    ELSE [schema |-> store.schema \cup {name}, table |-> [store.table EXCEPT ![name] = <<>>]]

\* A variant of main that logs the failure of the schema statement and
\* goes on to serve.
MainInitErrorLogged(service, outcome) ==
    /\ proc[service] = "start"
    /\ IF outcome = "connect failed"
       THEN proc' = [proc EXCEPT ![service] = "exited"] /\ UNCHANGED <<schema, table>>
       ELSE /\ proc' = [proc EXCEPT ![service] = "initialized"]
            /\ schema' = IF outcome = "ok" THEN schema \cup {TableName(service)} ELSE schema
            /\ UNCHANGED table

\* main of an ingest service up to the schema statement: database.Connect
\* and conn.Exec of CREATE TABLE IF NOT EXISTS, log.Fatalf when either fails.
MainInit(service, outcome) ==
    /\ proc[service] = "start"
    /\ IF outcome = "ok"
       THEN /\ proc' = [proc EXCEPT ![service] = "initialized"]
            /\ schema' = CreateTableIfNotExists(Store, TableName(service)).schema
            /\ table' = CreateTableIfNotExists(Store, TableName(service)).table
       ELSE /\ proc' = [proc EXCEPT ![service] = "exited"]
            /\ UNCHANGED <<schema, table>>

\* One more instance of a service is started while an earlier one serves or
\* after it has exited; proc follows the instance started last.
Launch(service) ==
    /\ proc[service] \in {"serving", "exited"}
    /\ proc' = [proc EXCEPT ![service] = "start"]
    /\ UNCHANGED <<schema, table>>

\* http.HandleFunc and http.ListenAndServe: the service takes requests, or
\* ListenAndServe returns at once and main ends.
MainListen(service, ok) ==
    /\ proc[service] = "initialized"
    /\ proc' = [proc EXCEPT ![service] = IF ok THEN "serving" ELSE "exited"]
    /\ UNCHANGED <<schema, table>>

Call(op, ok) == [op |-> op, ok |-> ok]

\* Requests are numbered in the order of their arrival.
Arrives(r) == pc[r] = "idle" /\ (IF r = 1 THEN TRUE ELSE pc[r - 1] # "idle")

\* http.Error(w, ..., status) or w.WriteHeader(status) followed by return
Respond(r, status, json) ==
    /\ resp' = [resp EXCEPT ![r] = [status |-> status, json |-> json]]
    /\ pc' = [pc EXCEPT ![r] = "done"]

\* A request answered before the handler touches the store.
Reject(r, service, b, status) ==
    /\ svc' = [svc EXCEPT ![r] = service]
    /\ body' = [body EXCEPT ![r] = b]
    /\ Respond(r, status, <<>>)
    /\ UNCHANGED <<apiResp, order, n, tx, calls, table>>

\* tx, err := app.db.Begin() and its error branch
Begin(r, ok) ==
    /\ calls' = [calls EXCEPT ![r] = Append(@, Call("Begin", ok))]
    /\ IF ok
       THEN /\ tx' = [tx EXCEPT ![r] = [state |-> "open", rows |-> <<>>]]
            /\ pc' = [pc EXCEPT ![r] = "prepare"]
            /\ UNCHANGED resp
       ELSE /\ Respond(r, 500, <<>>)
            /\ UNCHANGED tx

\* A variant of the error branches without tx.Rollback().
NotRolledBack(r, op) ==
    /\ calls' = [calls EXCEPT ![r] = Append(@, Call(op, FALSE))]
    /\ tx' = [tx EXCEPT ![r] = [state |-> "abandoned", rows |-> <<>>]]

\* tx.Rollback(): the store discards the rows executed in the transaction.
Rollback(r, op) ==
    /\ calls' = [calls EXCEPT ![r] = @ \o <<Call(op, FALSE), Call("Rollback", TRUE)>>]
    /\ tx' = [tx EXCEPT ![r] = [state |-> "rolledback", rows |-> <<>>]]

\* stmt, err := tx.PrepareContext(...) and its error branch
Prepare(r, ok, items) ==
    /\ pc[r] = "prepare"
    /\ IF ok
       THEN /\ calls' = [calls EXCEPT ![r] = Append(@, Call("Prepare", TRUE))]
            /\ pc' = [pc EXCEPT ![r] = IF items = 0 THEN "commit" ELSE "exec"]
            /\ UNCHANGED <<tx, resp>>
       ELSE /\ Rollback(r, "Prepare")
            /\ Respond(r, 500, <<>>)
    /\ UNCHANGED <<svc, body, dec, apiResp, n, table>>

\* Items(r): the number of items the loop of request r ranges over.
Items(r) == IF svc[r] = "events" THEN Len(dec[r].events) ELSE Len(order[r])

\* A variant of the error branch that logs the error and goes on with the
\* next item, neither rolling back nor returning.
ExecErrorIgnored(r) ==
    /\ calls' = [calls EXCEPT ![r] = Append(@, Call("Exec", FALSE))]
    /\ n' = [n EXCEPT ![r] = @ + 1]
    /\ pc' = [pc EXCEPT ![r] = IF n[r] + 1 = Items(r) THEN "commit" ELSE "exec"]
    /\ UNCHANGED <<tx, resp, table>>

\* A variant of the error branch that tries the insert of the row once more.
ExecRetried(r) ==
    IF \E i \in DOMAIN calls[r] : calls[r][i] = Call("Exec", FALSE)
    THEN /\ Rollback(r, "Exec")
         /\ Respond(r, 500, <<>>)
         /\ UNCHANGED <<n, table>>
    ELSE /\ calls' = [calls EXCEPT ![r] = Append(@, Call("Exec", FALSE))]
         /\ UNCHANGED <<tx, resp, pc, n, table>>

\* The error branch of stmt.ExecContext: rollback, 500, return.
ExecFailed(r) ==
    /\ Rollback(r, "Exec")
    /\ Respond(r, 500, <<>>)
    /\ UNCHANGED <<n, table>>

\* A variant in which the insert is executed outside the transaction
\* (on app.db instead of the statement of tx): the row is visible at once.
ExecOutsideTx(r, row, items) ==
    /\ calls' = [calls EXCEPT ![r] = Append(@, Call("Exec", TRUE))]
    /\ table' = [table EXCEPT ![IF svc[r] = "events" THEN "events" ELSE "market_data"] =
                     Append(@, [call |-> r, row |-> row])]
    /\ n' = [n EXCEPT ![r] = @ + 1]
    /\ pc' = [pc EXCEPT ![r] = IF n[r] + 1 = items THEN "commit" ELSE "exec"]
    /\ UNCHANGED <<resp, tx>>

\* A variant in which the store puts the row before those executed so far.
ExecDoneInFront(r, row, items) ==
    /\ calls' = [calls EXCEPT ![r] = Append(@, Call("Exec", TRUE))]
    /\ tx' = [tx EXCEPT ![r].rows = <<row>> \o @]
    /\ n' = [n EXCEPT ![r] = @ + 1]
    /\ pc' = [pc EXCEPT ![r] = IF n[r] + 1 = items THEN "commit" ELSE "exec"]
    /\ UNCHANGED resp
    /\ UNCHANGED table

\* stmt.ExecContext(...) succeeded: the row is part of the open transaction
\* and the loop goes on, or ends after the last item.
ExecDone(r, row, items) ==
    /\ calls' = [calls EXCEPT ![r] = Append(@, Call("Exec", TRUE))]
    /\ tx' = [tx EXCEPT ![r].rows = Append(@, row)]
    /\ n' = [n EXCEPT ![r] = @ + 1]
    /\ pc' = [pc EXCEPT ![r] = IF n[r] + 1 = items THEN "commit" ELSE "exec"]
    /\ UNCHANGED resp
    /\ UNCHANGED table

Tagged(r, rows) == [i \in 1..Len(rows) |-> [call |-> r, row |-> rows[i]]]

Rows(tagged) == [i \in 1..Len(tagged) |-> tagged[i].row]

\* A variant in which the store leaves out the rows that the table holds already.
CommittedDeduplicated(r, name) ==
    /\ calls' = [calls EXCEPT ![r] = Append(@, Call("Commit", TRUE))]
    /\ table' = [table EXCEPT ![name] =
                     @ \o SelectSeq(Tagged(r, tx[r].rows),
                                    LAMBDA x : \A p \in DOMAIN table[name] : table[name][p].row # x.row)]
    /\ tx' = [tx EXCEPT ![r] = [state |-> "committed", rows |-> <<>>]]

\* A variant that writes the rows of the transaction over those of the table.
CommittedOverwriting(r, name) ==
    /\ calls' = [calls EXCEPT ![r] = Append(@, Call("Commit", TRUE))]
    /\ table' = [table EXCEPT ![name] = Tagged(r, tx[r].rows)]
    /\ tx' = [tx EXCEPT ![r] = [state |-> "committed", rows |-> <<>>]]

\* tx.Commit() succeeded: the rows of the transaction become visible together.
Committed(r, name) ==
    /\ calls' = [calls EXCEPT ![r] = Append(@, Call("Commit", TRUE))]
    /\ table' = [table EXCEPT ![name] = @ \o Tagged(r, tx[r].rows)]
    /\ tx' = [tx EXCEPT ![r] = [state |-> "committed", rows |-> <<>>]]

\* A variant of the error branch without its return: the handler falls
\* through to w.WriteHeader(http.StatusAccepted).
CommitFailedNoReturn(r) ==
    /\ calls' = [calls EXCEPT ![r] = Append(@, Call("Commit", FALSE))]
    /\ tx' = [tx EXCEPT ![r] = [state |-> "failed", rows |-> <<>>]]
    /\ Respond(r, 202, <<>>)
    /\ UNCHANGED table

\* A variant of the error branch that calls tx.Rollback() after the failed
\* Commit.
CommitFailedThenRollback(r) ==
    /\ calls' = [calls EXCEPT ![r] = @ \o <<Call("Commit", FALSE), Call("Rollback", FALSE)>>]
    /\ tx' = [tx EXCEPT ![r] = [state |-> "failed", rows |-> <<>>]]
    /\ Respond(r, 500, <<>>)
    /\ UNCHANGED table

\* The error branch of tx.Commit(): nothing of the transaction is visible; 500.
CommitFailed(r) ==
    /\ calls' = [calls EXCEPT ![r] = Append(@, Call("Commit", FALSE))]
    /\ tx' = [tx EXCEPT ![r] = [state |-> "failed", rows |-> <<>>]]
    /\ Respond(r, 500, <<>>)
    /\ UNCHANGED table

\* stmt.ExecContext(context.Background(), ...) while the store does not
\* answer: the context has no deadline and is never cancelled, so the call
\* does not return.
ExecStalls(r) ==
    /\ pc[r] = "exec"
    /\ pc' = [pc EXCEPT ![r] = "waiting"]
    /\ UNCHANGED <<svc, body, dec, apiResp, order, n, tx, calls, resp, table>>

\* The store takes up the insert again.
ExecResumes(r) ==
    /\ pc[r] = "waiting"
    /\ pc' = [pc EXCEPT ![r] = "exec"]
    /\ UNCHANGED <<svc, body, dec, apiResp, order, n, tx, calls, resp, table>>

(***************************************************************************)
(* handleIngest of cmd/ingest-events.                                      *)
(***************************************************************************)
\* A variant without the check of len(events) == 0.
EventsDecodedUnchecked(r, b, d) ==
    /\ dec' = [dec EXCEPT ![r] = d]
    /\ IF ~d.ok
       THEN Reject(r, "events", b, 400)
       ELSE
         /\ svc' = [svc EXCEPT ![r] = "events"]
         /\ body' = [body EXCEPT ![r] = b]
         /\ \E ok \in BOOLEAN : Begin(r, ok)
         /\ UNCHANGED <<apiResp, order, n, table>>

EventsDecoded(r, b, d) ==
    /\ dec' = [dec EXCEPT ![r] = d]
    /\ IF ~d.ok \/ Len(d.events) = 0
       THEN Reject(r, "events", b, 400)
       ELSE
         /\ svc' = [svc EXCEPT ![r] = "events"]
         /\ body' = [body EXCEPT ![r] = b]
         /\ \E ok \in BOOLEAN : Begin(r, ok)
         /\ UNCHANGED <<apiResp, order, n, table>>

EventsReceive(r, Bodies) ==
    /\ Arrives(r)
    /\ proc["events"] = "serving"
    /\ \/ Reject(r, "events", JNull, 405) /\ UNCHANGED dec      \* r.Method != POST
       \/ Reject(r, "events", JNull, 400) /\ UNCHANGED dec      \* io.ReadAll failed
       \/ \E b \in Bodies : EventsDecoded(r, b, DecodeEvents(b))

EventsPrepare(r) ==
    /\ svc[r] = "events"
    /\ \E ok \in BOOLEAN : Prepare(r, ok, Len(dec[r].events))
    /\ UNCHANGED order

EventsExec(r) ==
    /\ svc[r] = "events" /\ pc[r] = "exec"
    /\ \/ ExecDone(r, dec[r].events[n[r] + 1], Len(dec[r].events))
       \/ ExecFailed(r)
    /\ UNCHANGED <<svc, body, dec, apiResp, order>>

EventsCommit(r) ==
    /\ svc[r] = "events" /\ pc[r] = "commit"
    /\ \/ Committed(r, "events") /\ Respond(r, 202, <<>>)
       \/ CommitFailed(r)
    /\ UNCHANGED <<svc, body, dec, apiResp, order, n>>

(***************************************************************************)
(* handleIngest of cmd/ingest-marketdata.                                  *)
(***************************************************************************)
\* A variant that refuses an envelope without instruments, as the events
\* handler refuses an empty batch.
MarketDecodedNonEmpty(r, b, d) ==
    IF d.err # Nil \/ DOMAIN d.v.Data.TokenData = {}
    THEN Reject(r, "marketdata", b, 400) /\ UNCHANGED dec
    ELSE /\ svc' = [svc EXCEPT ![r] = "marketdata"]
         /\ body' = [body EXCEPT ![r] = b]
         /\ apiResp' = [apiResp EXCEPT ![r] = d.v]
         /\ \E ok \in BOOLEAN : Begin(r, ok)
         /\ UNCHANGED <<dec, order, n, table>>

MarketDecoded(r, b, d) ==
    IF d.err # Nil
    THEN Reject(r, "marketdata", b, 400) /\ UNCHANGED dec
    ELSE /\ svc' = [svc EXCEPT ![r] = "marketdata"]
         /\ body' = [body EXCEPT ![r] = b]
         /\ apiResp' = [apiResp EXCEPT ![r] = d.v]
         /\ \E ok \in BOOLEAN : Begin(r, ok)
         /\ UNCHANGED <<dec, order, n, table>>

MarketReceive(r, Bodies) ==
    /\ Arrives(r)
    /\ proc["marketdata"] = "serving"
    /\ \/ Reject(r, "marketdata", JNull, 405) /\ UNCHANGED dec  \* r.Method != POST
       \/ Reject(r, "marketdata", JNull, 500) /\ UNCHANGED dec  \* io.ReadAll failed
       \/ \E b \in Bodies : MarketDecoded(r, b, UnmarshalApiResponse(b))

\* The range over the map starts once the statement is prepared; the order
\* in which it visits the keys is fixed here.
MarketPrepare(r) ==
    /\ svc[r] = "marketdata"
    /\ \E ok \in BOOLEAN : Prepare(r, ok, Cardinality(DOMAIN apiResp[r].Data.TokenData))
    /\ IF pc'[r] = "done" THEN UNCHANGED order
       ELSE \E o \in RangeOrders(apiResp[r].Data.TokenData) :
               order' = [order EXCEPT ![r] = o]

MarketRow(r, i) ==
    Flatten(apiResp[r].Data.RequestID, UnixMilli(apiResp[r].Data.TimeInMillis),
            order[r][i], apiResp[r].Data.TokenData[order[r][i]])

\* A variant that fails the whole envelope on a timestamp that does not
\* parse: rollback and rejection instead of the insert.
MarketExecStrict(r) ==
    /\ svc[r] = "marketdata" /\ pc[r] = "exec"
    /\ IF timeParse(apiResp[r].Data.TokenData[order[r][n[r] + 1]].Timestamp).err # Nil
       THEN /\ calls' = [calls EXCEPT ![r] = Append(@, Call("Rollback", TRUE))]
            /\ tx' = [tx EXCEPT ![r] = [state |-> "rolledback", rows |-> <<>>]]
            /\ Respond(r, 400, <<>>)
            /\ UNCHANGED <<n, table>>
       ELSE \/ ExecDone(r, MarketRow(r, n[r] + 1), Len(order[r]))
            \/ ExecFailed(r)
    /\ UNCHANGED <<svc, body, dec, apiResp, order>>

MarketExec(r) ==
    /\ svc[r] = "marketdata" /\ pc[r] = "exec"
    /\ \/ ExecDone(r, MarketRow(r, n[r] + 1), Len(order[r]))
       \/ ExecFailed(r)
    /\ UNCHANGED <<svc, body, dec, apiResp, order>>

MarketCommit(r) ==
    /\ svc[r] = "marketdata" /\ pc[r] = "commit"
    /\ \/ /\ Committed(r, "market_data")
          /\ Respond(r, 202, <<[status |-> "accepted", ingested |-> IngestedCount(apiResp[r])]>>)
       \/ CommitFailed(r)
    /\ UNCHANGED <<svc, body, dec, apiResp, order, n>>

(***************************************************************************)
(* The market poller (second program of cmd/on-demand-fetcher/main.go).    *)
(* Times are wall-clock times in the configured zone, whose offset is      *)
(* taken as constant: time.Now().In(c.Loc) is the reading itself.          *)
(***************************************************************************)
\* Days from 1970-01-01 to the civil date Y-M-D.
DaysFromCivil(Y, M, D) ==
    LET y == IF M <= 2 THEN Y - 1 ELSE Y
        era == y \div 400
        yoe == y - era * 400
        doy == (153 * (IF M > 2 THEN M - 3 ELSE M + 9) + 2) \div 5 + D - 1
        doe == yoe * 365 + yoe \div 4 - yoe \div 100 + doy
    IN era * 146097 + doe - 719468

Sunday == 0

Saturday == 6

\* t.Weekday(): Sunday = 0, ..., Saturday = 6; 1970-01-01 was a Thursday.
Weekday(t) == (DaysFromCivil(t.Y, t.M, t.D) + 4) % 7

\* The civil date of a day number outside its month, as time.Date has it.
RECURSIVE NormDay(_, _, _)
NormDay(Y, M, D) ==
    IF D < 1
    THEN NormDay(IF M = 1 THEN Y - 1 ELSE Y, IF M = 1 THEN 12 ELSE M - 1,
                 D + daysIn(IF M = 1 THEN 12 ELSE M - 1, IF M = 1 THEN Y - 1 ELSE Y))
    ELSE IF D > daysIn(M, Y)
    THEN NormDay(IF M = 12 THEN Y + 1 ELSE Y, IF M = 12 THEN 1 ELSE M + 1, D - daysIn(M, Y))
    ELSE <<Y, M, D>>

OnDay(ymd, t) == Date(ymd[1], ymd[2], ymd[3], t.h, t.m, t.s, t.ns)

\* t.AddDate(years, months, days): time.Date of the sums, which normalizes
\* the month into the year and then the day into the month.
AddDate(t, years, months, days) ==
    OnDay(NormDay(t.Y + years + (t.M + months - 1) \div 12, ((t.M + months - 1) % 12) + 1, t.D + days), t)

Stamp(t) == <<t.Y, t.M, t.D, t.h, t.m, t.s, t.ns>>

RECURSIVE LexLess(_, _, _)
LexLess(a, b, i) ==
    IF i > Len(a) THEN FALSE
    ELSE IF a[i] # b[i] THEN a[i] < b[i]
    ELSE LexLess(a, b, i + 1)

\* t.Before(u) and t.After(u), both strict
Before(t, u) == LexLess(Stamp(t), Stamp(u), 1)

After(t, u) == Before(u, t)

\* time.ParseInLocation("15:04", s, loc): the hour is one or two digits, the
\* minute two; the date is January 1 of the year 0.
ParseInLocation(s) ==
    LET hl == IF IsDigit(s, 2) THEN 2 ELSE 1
    IN IF ~(IsDigits(s, 1, hl) /\ IsLit(s, hl + 1, ":") /\ IsDigits(s, hl + 2, hl + 3))
       THEN [err |-> ParseError("cannot parse"), t |-> ZeroTime]
       ELSE IF Atoi(s, 1, hl) >= 24 \/ Atoi(s, hl + 2, hl + 3) >= 60
       THEN [err |-> ParseError("out of range"), t |-> ZeroTime]
       ELSE IF Len(s) > hl + 3 THEN [err |-> ParseError("extra text"), t |-> ZeroTime]
       ELSE [err |-> Nil, t |-> Date(0, 1, 1, Atoi(s, 1, hl), Atoi(s, hl + 2, hl + 3), 0, 0)]

\* loadConfig: POLLER_START_TIME and POLLER_END_TIME parsed and moved to the
\* date of nowInLoc; an error when either does not parse.
ConfigOf(start, end, nowInLoc) ==
    IF start.err # Nil THEN [err |-> start.err, cfg |-> NoConfig]
    ELSE IF end.err # Nil THEN [err |-> end.err, cfg |-> NoConfig]
    ELSE [err |-> Nil,
          cfg |-> [loaded |-> TRUE,
                   StartTime |-> AddDate(start.t, nowInLoc.Y, nowInLoc.M - 1, nowInLoc.D - 1),
                   EndTime |-> AddDate(end.t, nowInLoc.Y, nowInLoc.M - 1, nowInLoc.D - 1)]]

loadConfig(startStr, endStr, nowInLoc) ==
    ConfigOf(ParseInLocation(startStr), ParseInLocation(endStr), nowInLoc)

\* A variant that leaves the window on the day the configuration was loaded.
NotRebased(u, t) == u

\* c.StartTime or c.EndTime moved to the date of t
Rebased(u, t) == AddDate(u, t.Y - u.Y, t.M - u.M, t.D - u.D)

\* A variant without the weekend check.
isMarketOpenEveryDay(c, t) ==
    After(t, Rebased(c.StartTime, t)) /\ Before(t, Rebased(c.EndTime, t))

\* A variant whose window includes its two ends.
isMarketOpenInclusive(c, t) ==
    IF Weekday(t) = Saturday \/ Weekday(t) = Sunday THEN FALSE
    ELSE ~Before(t, Rebased(c.StartTime, t)) /\ ~After(t, Rebased(c.EndTime, t))

\* c.isMarketOpen() when time.Now().In(c.Loc) is t
isMarketOpen(c, t) ==
    IF Weekday(t) = Saturday \/ Weekday(t) = Sunday THEN FALSE
    ELSE After(t, Rebased(c.StartTime, t)) /\ Before(t, Rebased(c.EndTime, t))

\* The ticks of the poller's ticker that the model follows.
MaxCycles == 2

\* An HTTP call of the poller: the GET of the upstream API, the POST of its
\* body to the market-data ingest, the POST of one event by c.logEvent.
\* status is the status of the response, 0 when there is none; body is the
\* body read from the response of a GET and the body sent by a POST.
NoBody == [t |-> "none"]

Get(url, status, body_) ==
    [method |-> "GET", url |-> url, source |-> "", level |-> "", message |-> "",
     status |-> status, body |-> body_]

Post(url, body_, status) ==
    [method |-> "POST", url |-> url, source |-> "", level |-> "", message |-> "",
     status |-> status, body |-> body_]

logEvent(level, message) ==
    [method |-> "POST", url |-> "IngestEventsURL", source |-> "market-poller", level |-> level,
     message |-> message, status |-> 0, body |-> NoBody]

\* main: loadConfig, log.Fatalf on its error, else the first runFetchCycle.
PollerMain(startStr, endStr) ==
    /\ poller.pc = "load"
    /\ IF loadConfig(startStr, endStr, now).err # Nil
       THEN /\ poller' = [poller EXCEPT !.pc = "exited"]
            /\ UNCHANGED cfg
       ELSE /\ cfg' = loadConfig(startStr, endStr, now).cfg
            /\ poller' = [poller EXCEPT !.pc = "cycle"]
    /\ UNCHANGED now

\* A variant that fetches whatever the gate has answered.
CycleUngated(t, open) ==
    /\ now' = t
    /\ poller' = [pc |-> "fetch", open |-> open,
                  sent |-> <<logEvent("INFO", "Attempting to fetch data")>>,
                  cycles |-> poller.cycles + 1,
                  seen |-> poller.seen \cup {[at |-> t, open |-> open]}]
    /\ UNCHANGED cfg

\* A variant that only prints "Market is closed. Sleeping." before it returns.
CycleClosedSilent(t, open) ==
    /\ now' = t
    /\ poller' = [pc |-> IF open THEN "fetch" ELSE "wait", open |-> open,
                  sent |-> IF open THEN <<logEvent("INFO", "Attempting to fetch data")>> ELSE <<>>,
                  cycles |-> poller.cycles + 1,
                  seen |-> poller.seen \cup {[at |-> t, open |-> open]}]
    /\ UNCHANGED cfg

\* A variant of the gate that keeps the window it has moved to today.
CycleRebasing(t, open) ==
    /\ now' = t
    /\ poller' = [pc |-> IF open THEN "fetch" ELSE "wait", open |-> open,
                  sent |-> <<IF open THEN logEvent("INFO", "Attempting to fetch data")
                             ELSE logEvent("INFO", "Market is closed. Sleeping.")>>,
                  cycles |-> poller.cycles + 1,
                  seen |-> poller.seen \cup {[at |-> t, open |-> open]}]
    /\ cfg' = [cfg EXCEPT !.StartTime = Rebased(@, t), !.EndTime = Rebased(@, t)]

\* The start of runFetchCycle once the gate has answered: closed, one event
\* is logged and the cycle is over; open, the fetch is announced.
CycleGated(t, open) ==
    /\ now' = t
    /\ poller' = [pc |-> IF open THEN "fetch" ELSE "wait", open |-> open,
                  sent |-> <<IF open THEN logEvent("INFO", "Attempting to fetch data")
                             ELSE logEvent("INFO", "Market is closed. Sleeping.")>>,
                  cycles |-> poller.cycles + 1,
                  seen |-> poller.seen \cup {[at |-> t, open |-> open]}]
    /\ UNCHANGED cfg

\* runFetchCycle(cfg), the clock reading t: no reading is earlier than the
\* one before it.
runFetchCycle(t) ==
    /\ poller.pc = "cycle"
    /\ ~Before(t, now)
    /\ CycleGated(t, isMarketOpen(cfg, t))

Sent(calls_, next) ==
    /\ poller' = [poller EXCEPT !.sent = @ \o calls_, !.pc = next]
    /\ UNCHANGED <<cfg, now>>

\* The bodies the upstream API answers with: {"success": false}, and bytes
\* that are not JSON.  The poller does not decode them.
UpstreamBodies == {JObj([success |-> JBool(FALSE)]), JInvalid}

\* A variant without the check of resp.StatusCode.
CycleFetchAnyStatus(outcome) ==
    /\ poller.pc = "fetch"
    /\ CASE outcome = "bad request" ->
              Sent(<<logEvent("ERROR", "Failed to create batch request")>>, "wait")
         [] outcome = "error" ->
              Sent(<<Get("UpstoxURL", 0, NoBody), logEvent("ERROR", "Failed to fetch batch data")>>, "wait")
         [] outcome = "unreadable" ->
              Sent(<<Get("UpstoxURL", 200, NoBody),
                     logEvent("ERROR", "Failed to read batch response body")>>, "wait")
         [] outcome = "non-200" ->
              \E b \in UpstreamBodies : Sent(<<Get("UpstoxURL", 401, b)>>, "ingest")
         [] outcome = "200" ->
              \E b \in UpstreamBodies : Sent(<<Get("UpstoxURL", 200, b)>>, "ingest")

\* http.NewRequest, cfg.HttpClient.Do(req), io.ReadAll and the status check
CycleFetch(outcome) ==
    /\ poller.pc = "fetch"
    /\ CASE outcome = "bad request" ->
              Sent(<<logEvent("ERROR", "Failed to create batch request")>>, "wait")
         [] outcome = "error" ->
              Sent(<<Get("UpstoxURL", 0, NoBody), logEvent("ERROR", "Failed to fetch batch data")>>, "wait")
         [] outcome = "unreadable" ->
              Sent(<<Get("UpstoxURL", 200, NoBody),
                     logEvent("ERROR", "Failed to read batch response body")>>, "wait")
         [] outcome = "non-200" ->
              \E b \in UpstreamBodies :
                  Sent(<<Get("UpstoxURL", 401, b), logEvent("WARN", "Non-OK response from Upstox")>>, "wait")
         [] outcome = "200" ->
              \E b \in UpstreamBodies : Sent(<<Get("UpstoxURL", 200, b)>>, "ingest")

\* body, as io.ReadAll has returned it: the body of the GET, the last call
\* when the POST is made.
Body == poller.sent[Len(poller.sent)].body

\* A variant that ends the process when the ingest fails.
CycleIngestFatal(outcome) ==
    /\ poller.pc = "ingest"
    /\ CASE outcome = "error" ->
              Sent(<<Post("IngestMarketURL", Body, 0), logEvent("ERROR", "Failed to ingest batch data")>>, "exited")
         [] outcome = "non-202" ->
              Sent(<<Post("IngestMarketURL", Body, 500), logEvent("ERROR", "Ingest service gave non-202 status")>>, "exited")
         [] outcome = "202" ->
              Sent(<<Post("IngestMarketURL", Body, 202), logEvent("INFO", "Successfully ingested data")>>, "wait")

\* cfg.HttpClient.Post(cfg.IngestMarketURL, ...) and the status check
CycleIngest(outcome) ==
    /\ poller.pc = "ingest"
    /\ CASE outcome = "error" ->
              Sent(<<Post("IngestMarketURL", Body, 0), logEvent("ERROR", "Failed to ingest batch data")>>, "wait")
         [] outcome = "non-202" ->
              Sent(<<Post("IngestMarketURL", Body, 500), logEvent("ERROR", "Ingest service gave non-202 status")>>, "wait")
         [] outcome = "202" ->
              Sent(<<Post("IngestMarketURL", Body, 202), logEvent("INFO", "Successfully ingested data")>>, "wait")

\* A variant that starts the cycle of a tick without waiting for the one
\* before it (go runFetchCycle(cfg)).
TickerConcurrent ==
    /\ poller.pc \in {"wait", "fetch", "ingest"}
    /\ poller.cycles < MaxCycles
    /\ poller' = [poller EXCEPT !.pc = "cycle"]
    /\ UNCHANGED <<cfg, now>>

\* for range ticker.C
Ticker ==
    /\ poller.pc = "wait"
    /\ poller.cycles < MaxCycles
    /\ poller' = [poller EXCEPT !.pc = "cycle"]
    /\ UNCHANGED <<cfg, now>>

\* The ticks after the cycle number MaxCycles: the cycles are counted up to
\* MaxCycles and no further.
TickerOn ==
    /\ poller.pc = "wait"
    /\ poller.cycles = MaxCycles
    /\ poller' = [poller EXCEPT !.pc = "cycle", !.cycles = MaxCycles - 1]
    /\ UNCHANGED <<cfg, now>>

\* The clock readings of the model: a Thursday, a Friday, the weekend after
\* it and the Monday after that, around the ends of the window 09:15-15:30.
Instants ==
    {Boot, Date(2025, 10, 31, 9, 14, 0, 0), Date(2025, 10, 31, 15, 30, 0, 0),
     Date(2025, 11, 1, 10, 0, 0, 0), Date(2025, 11, 2, 10, 0, 0, 0),
     Date(2025, 11, 3, 9, 14, 0, 0), Date(2025, 11, 3, 9, 15, 0, 0),
     Date(2025, 11, 3, 9, 15, 0, 1), Date(2025, 11, 3, 9, 16, 0, 0),
     Date(2025, 11, 3, 15, 29, 59, 999999999), Date(2025, 11, 3, 15, 30, 0, 0),
     Date(2025, 11, 3, 15, 31, 0, 0)}

\* POLLER_START_TIME and POLLER_END_TIME
Clock0915 == <<"0", "9", ":", "1", "5">>
Clock1530 == <<"1", "5", ":", "3", "0">>

Envs ==
    {<<Clock0915, Clock1530>>, <<<<"9", ":", "1", "5">>, Clock1530>>,
     <<<<"0", "0", ":", "0", "0">>, <<"2", "3", ":", "5", "9">>>>,
     <<Clock1530, Clock0915>>, <<Clock0915, Clock0915>>,
     <<<<"2", "5", ":", "0", "0">>, Clock1530>>, <<Clock0915, <<"1", "5", "3", "0">>>>}

(***************************************************************************)
(* handleFetch (first program of cmd/on-demand-fetcher/main.go).  The      *)
(* bodies of its error branches after http.NewRequest, HttpClient.Do,      *)
(* io.ReadAll and HttpClient.Post are empty: the handler goes on with the  *)
(* nil result, and dereferencing it panics; net/http recovers the panic    *)
(* and closes the connection without a response.                           *)
(***************************************************************************)
\* json.NewDecoder(r.Body).Decode(&reqBody), reqBody a FetchRequest
UnmarshalFetchRequest(j) ==
    IF j.t = "invalid" THEN [err |-> SyntaxError, v |-> <<>>]
    ELSE IF j.t = "null" THEN [err |-> Nil, v |-> <<>>]
    ELSE IF j.t # "object" THEN [err |-> UnmarshalTypeError(j.t, "FetchRequest"), v |-> <<>>]
    ELSE IF ~Has(j.v, "instruments") THEN [err |-> Nil, v |-> <<>>]
    ELSE IF j.v["instruments"].t # "array"
    THEN [err |-> UnmarshalTypeError(j.v["instruments"].t, "[]string"), v |-> <<>>]
    ELSE LET a == j.v["instruments"].v
         IN IF \E i \in DOMAIN a : a[i].t \notin {"string", "null"}
            THEN [err |-> UnmarshalTypeError("element", "string"), v |-> <<>>]
            ELSE [err |-> Nil, v |-> [i \in DOMAIN a |-> IF a[i].t = "null" THEN "" ELSE a[i].v]]

\* c.logEvent of the fetcher: Source is "on-demand-fetcher"
logEventFetcher(level, message) ==
    [method |-> "POST", url |-> "IngestEventsURL", source |-> "on-demand-fetcher", level |-> level,
     message |-> message, status |-> 0, body |-> NoBody]

\* What io.ReadAll returns with an error: the bytes read so far.
PartialBody == [t |-> "partial"]

fetchRest == <<cfg, now, poller, proc, schema, query, results, load, db>>

\* http.Error or w.WriteHeader(status), then return
FetchAnswer(status, calls_) ==
    fetch' = [fetch EXCEPT !.pc = "done", !.status = status, !.sent = @ \o calls_]

\* A nil pointer is dereferenced: no response is written.
FetchPanic(calls_) ==
    fetch' = [fetch EXCEPT !.pc = "done", !.panicked = TRUE, !.sent = @ \o calls_]

\* handleFetch up to the logEvent of the request: 405, 400 for a body that
\* does not decode, 400 for no instruments.  A request is taken when the
\* one before it is answered.
handleFetchReceive(method, b) ==
    /\ fetch.pc \in {"idle", "done"}
    /\ Len(fetch.answered) < (IF fetch.pc = "done" THEN NumReq - 1 ELSE NumReq)
    /\ LET next == [NoFetch EXCEPT !.method = method, !.body = b,
                                   !.answered = IF fetch.pc = "done"
                                                THEN Append(fetch.answered, fetch.status)
                                                ELSE fetch.answered]
           d == UnmarshalFetchRequest(b)
       IN IF method # "POST" THEN fetch' = [next EXCEPT !.pc = "done", !.status = 405]
          ELSE IF d.err # Nil THEN fetch' = [next EXCEPT !.pc = "done", !.status = 400]
          ELSE IF Len(d.v) = 0 THEN fetch' = [next EXCEPT !.pc = "done", !.status = 400]
          ELSE fetch' = [next EXCEPT !.pc = "fetch", !.instruments = d.v,
                                     !.sent = <<logEventFetcher("INFO", "Manual fetch request received")>>]
    /\ UNCHANGED ingestVars /\ UNCHANGED fetchRest

\* http.NewRequest, HttpClient.Do, io.ReadAll and the status check.  A
\* status other than 200 is passed on to the caller.
handleFetchUpstream(outcome) ==
    /\ fetch.pc = "fetch"
    /\ CASE outcome = "bad request" -> FetchPanic(<<>>)
         [] outcome = "error" -> FetchPanic(<<Get("UpstoxURL", 0, NoBody)>>)
         [] outcome = "unreadable" ->
              \/ FetchAnswer(401, <<Get("UpstoxURL", 401, PartialBody),
                                    logEventFetcher("WARN", "Non-OK response from Upstox")>>)
              \/ fetch' = [fetch EXCEPT !.pc = "ingest",
                                        !.sent = Append(@, Get("UpstoxURL", 200, PartialBody))]
         [] outcome = "non-200" ->
              \E st \in {204, 401} : \E b \in UpstreamBodies :
                  FetchAnswer(st, <<Get("UpstoxURL", st, b),
                                    logEventFetcher("WARN", "Non-OK response from Upstox")>>)
         [] outcome = "200" ->
              \E b \in UpstreamBodies :
                  fetch' = [fetch EXCEPT !.pc = "ingest", !.sent = Append(@, Get("UpstoxURL", 200, b))]
    /\ UNCHANGED ingestVars /\ UNCHANGED fetchRest

\* A variant that answers 200 whatever the market ingest has answered.
handleFetchIngestUnchecked(outcome) ==
    /\ fetch.pc = "ingest"
    /\ LET b == fetch.sent[Len(fetch.sent)].body
       IN CASE outcome = "error" -> FetchPanic(<<Post("IngestMarketURL", b, 0)>>)
            [] outcome = "non-202" ->
                 FetchAnswer(200, <<Post("IngestMarketURL", b, 500),
                                    logEventFetcher("INFO", "Successfully executed manual fetch")>>)
            [] outcome = "202" ->
                 FetchAnswer(200, <<Post("IngestMarketURL", b, 202),
                                    logEventFetcher("INFO", "Successfully executed manual fetch")>>)
    /\ UNCHANGED ingestVars /\ UNCHANGED fetchRest

\* HttpClient.Post(IngestMarketURL, ..., body), the status check and the
\* answer
handleFetchIngest(outcome) ==
    /\ fetch.pc = "ingest"
    /\ LET b == fetch.sent[Len(fetch.sent)].body
       IN CASE outcome = "error" -> FetchPanic(<<Post("IngestMarketURL", b, 0)>>)
            [] outcome = "non-202" ->
                 FetchAnswer(500, <<Post("IngestMarketURL", b, 500),
                                    logEventFetcher("ERROR", "Ingest service failed")>>)
            [] outcome = "202" ->
                 FetchAnswer(200, <<Post("IngestMarketURL", b, 202),
                                    logEventFetcher("INFO", "Successfully executed manual fetch")>>)
    /\ UNCHANGED ingestVars /\ UNCHANGED fetchRest

\* The bodies sent to handleFetch.
NoInstrumentBodies ==
    {JNull, JObj(<<>>), JObj([instruments |-> JNull]), JObj([instruments |-> JArr(<<>>)])}

FetchBodies ==
    NoInstrumentBodies
    \cup {JInvalid, JArr(<<>>), JObj([instruments |-> JStr("NSE_EQ|INE002A01018")]),
          JObj([instruments |-> JArr(<<JNum(1)>>)]),
          JObj([instruments |-> JArr(<<JStr("NSE_INDEX|Nifty 50")>>)]),
          JObj([instruments |-> JArr(<<JStr("NSE_INDEX|Nifty 50"), JStr("NSE_EQ|INE002A01018")>>)])}

NextFetch ==
    \/ \E method \in {"GET", "POST"} : \E b \in FetchBodies : handleFetchReceive(method, b)
    \/ \E o \in {"bad request", "error", "unreadable", "non-200", "200"} : handleFetchUpstream(o)
    \/ \E o \in {"error", "non-202", "202"} : handleFetchIngest(o)

SpecFetch == Init /\ [][NextFetch]_vars

(***************************************************************************)
(* The load tester (cmd/load-tester/main.go): main spawns one goroutine    *)
(* for each query and for each ingest batch and waits for them on a        *)
(* sync.WaitGroup; the workers count into four atomic.Uint64, whose Add    *)
(* is one step.  The sums stay far below 2^64.                             *)
(***************************************************************************)
loadRest == <<cfg, now, poller, proc, schema, query, results, fetch, db>>

\* The workers of a kind spawned so far.
Spawned(kind) == {w \in DOMAIN load.worker : load.worker[w].kind = kind}

\* flag.Parse() and wg.Add(*numQueries)
LoadParse(batches, perBatch, queries) ==
    /\ load.pc = "parse"
    /\ load' = [load EXCEPT !.pc = "spawn queries", !.numIngestBatches = batches,
                            !.eventsPerBatch = perBatch, !.numQueries = queries, !.wg = queries]
    /\ UNCHANGED ingestVars /\ UNCHANGED loadRest

\* for i := 0; i < *numQueries; i++ { go runQueryWorker(&wg) } and, at the
\* end of the loop, wg.Add(*numIngestBatches)
LoadSpawnQuery ==
    /\ load.pc = "spawn queries"
    /\ load' = IF Cardinality(Spawned("query")) < load.numQueries
               THEN [load EXCEPT !.worker = Append(@, [kind |-> "query", pc |-> "running"])]
               ELSE [load EXCEPT !.pc = "spawn ingests", !.wg = @ + load.numIngestBatches]
    /\ UNCHANGED ingestVars /\ UNCHANGED loadRest

\* for i := 0; i < *numIngestBatches; i++ { go runIngestWorker(&wg) }
LoadSpawnIngest ==
    /\ load.pc = "spawn ingests"
    /\ load' = IF Cardinality(Spawned("ingest")) < load.numIngestBatches
               THEN [load EXCEPT !.worker = Append(@, [kind |-> "ingest", pc |-> "running"])]
               ELSE [load EXCEPT !.pc = "wait"]
    /\ UNCHANGED ingestVars /\ UNCHANGED loadRest

\* A variant of main without wg.Wait().
LoadWaitNoWait ==
    /\ load.pc = "wait"
    /\ load' = [load EXCEPT !.pc = "done", !.printed = load.counters]
    /\ UNCHANGED ingestVars /\ UNCHANGED loadRest

\* wg.Wait() returns when the counter is zero; main then loads the counters
\* and prints them.
LoadWait ==
    /\ load.pc = "wait"
    /\ load.wg = 0
    /\ load' = [load EXCEPT !.pc = "done", !.printed = load.counters]
    /\ UNCHANGED ingestVars /\ UNCHANGED loadRest

\* runQueryWorker up to its return: client.Get and the status check
runQueryWorker(w, outcome) ==
    /\ w \in Spawned("query") /\ load.worker[w].pc = "running"
    /\ load' = [load EXCEPT !.worker[w].pc = "counted",
                            !.counters = IF outcome = "200"
                                         THEN [@ EXCEPT !.querySuccess = @ + 1]
                                         ELSE [@ EXCEPT !.queryFailure = @ + 1]]
    /\ UNCHANGED ingestVars /\ UNCHANGED loadRest

\* runIngestWorker up to its return: json.Marshal, http.NewRequest,
\* client.Do and the status check
runIngestWorker(w, outcome) ==
    /\ w \in Spawned("ingest") /\ load.worker[w].pc = "running"
    /\ load' = [load EXCEPT !.worker[w].pc = "counted",
                            !.counters = IF outcome = "202"
                                         THEN [@ EXCEPT !.ingestSuccess = @ + load.eventsPerBatch]
                                         ELSE [@ EXCEPT !.ingestFailure = @ + load.eventsPerBatch]]
    /\ UNCHANGED ingestVars /\ UNCHANGED loadRest

\* defer wg.Done()
WorkerDone(w) ==
    /\ w \in DOMAIN load.worker /\ load.worker[w].pc = "counted"
    /\ load' = [load EXCEPT !.worker[w].pc = "done", !.wg = @ - 1]
    /\ UNCHANGED ingestVars /\ UNCHANGED loadRest

\* The values of the flags -ingest-batches, -events-per-batch and -queries.
IngestBatches == {0, 1, 2}

EventsPerBatch == {0, 1, 3}

Queries == {0, 1, 2}

Workers == 1..4

NextLoad ==
    \/ \E batches \in IngestBatches : \E perBatch \in EventsPerBatch : \E queries \in Queries :
          LoadParse(batches, perBatch, queries)
    \/ LoadSpawnQuery
    \/ LoadSpawnIngest
    \/ \E w \in Workers : \E outcome \in {"error", "non-200", "200"} : runQueryWorker(w, outcome)
    \/ \E w \in Workers : \E outcome \in {"marshal", "request", "error", "non-202", "202"} :
          runIngestWorker(w, outcome)
    \/ \E w \in Workers : WorkerDone(w)
    \/ LoadWait

SpecLoad == Init /\ [][NextLoad]_vars

(***************************************************************************)
(* handleQuery of cmd/query-events: SELECT ... FROM events ORDER BY        *)
(* Timestamp DESC LIMIT 10.  The column Timestamp is a DateTime, which     *)
(* keeps whole seconds; rows with equal Timestamp come in any order.       *)
(***************************************************************************)
QueryLimit == 10

DateTime(t) == [t EXCEPT !.ns = 0]

\* A variant that reads the nanoseconds back.
ScanUntruncated(e) == e

\* rows.Scan(&event.Timestamp, ...) of one committed row
Scan(e) == [e EXCEPT !.Timestamp = DateTime(@)]

\* The index, among those of S, of a row with the latest Timestamp.
RECURSIVE Latest(_, _)
Latest(rows, S) ==
    LET i == CHOOSE j \in S : TRUE
    IN  IF S = {i} THEN i
        ELSE LET m == Latest(rows, S \ {i})
             IN  IF Before(rows[m].Timestamp, rows[i].Timestamp) THEN i ELSE m

\* The results of ORDER BY Timestamp DESC LIMIT k over the rows whose
\* indices are in S.
RECURSIVE OrderByDesc(_, _, _)
OrderByDesc(rows, S, k) ==
    IF S = {} \/ k = 0 THEN {<<>>}
    ELSE LET top == rows[Latest(rows, S)].Timestamp
         IN  UNION {{<<rows[i]>> \o rest : rest \in OrderByDesc(rows, S \ {i}, k - 1)} :
                       i \in {j \in S : ~Before(rows[j].Timestamp, top)}}

Scanned(tagged) == [i \in 1..Len(tagged) |-> Scan(tagged[i].row)]

Answer(status, events) ==
    /\ query' = [status |-> status, events |-> events, at |-> Len(table.events)]
    /\ UNCHANGED ingestVars
    /\ UNCHANGED <<cfg, now, poller, proc, schema, results, fetch, load, db>>

\* handleQuery: 405 for a method other than GET; 500 when app.db.Query,
\* rows.Scan or rows.Err fails; else the events read, encoded as JSON.
handleQuery(outcome) ==
    CASE outcome = "method" -> Answer(405, <<>>)
      [] outcome = "error" -> Answer(500, <<>>)
      [] outcome = "ok" ->
            /\ "events" \in schema
            /\ \E res \in OrderByDesc(Scanned(table.events), DOMAIN table.events, QueryLimit) :
                  Answer(200, res)

(***************************************************************************)
(* handleQuery of cmd/query-marketdata: SELECT TokenName, LastPrice,       *)
(* Timestamp FROM market_data ORDER BY Timestamp DESC LIMIT 10, each row   *)
(* scanned into a QueryResponse.                                           *)
(***************************************************************************)
Columns == <<"TokenName", "LastPrice", "Timestamp">>

\* The destinations of rows.Scan, as fields of QueryResponse.
Dest == <<"Token", "LastPrice", "Timestamp", "Volume", "AveragePrice", "NetChange">>

ZeroQueryResponse ==
    [Token |-> "", LastPrice |-> 0, Timestamp |-> ZeroTime, Volume |-> 0, AveragePrice |-> 0,
     NetChange |-> 0]

ScanError(columns_, dest_) == [kind |-> "Scan", expected |-> columns_, got |-> dest_]

RECURSIVE Assign(_, _, _, _, _)
Assign(res, row, columns, dest, i) ==
    IF i > Len(columns) THEN res
    ELSE Assign([res EXCEPT ![dest[i]] = IF columns[i] = "Timestamp" THEN DateTime(row[columns[i]])
                                           ELSE row[columns[i]]],
                row, columns, dest, i + 1)

\* rows.Scan(dest...): database/sql wants as many destinations as the row
\* has columns, and copies column i into destination i.
RowsScan(row, columns, dest) ==
    IF Len(dest) # Len(columns)
    THEN [err |-> ScanError(Len(columns), Len(dest)), v |-> ZeroQueryResponse]
    ELSE [err |-> Nil, v |-> Assign(ZeroQueryResponse, row, columns, dest, 1)]

AnswerMarket(status, err, rows) ==
    /\ results' = [status |-> status, err |-> err, rows |-> rows, at |-> Len(table.market_data)]
    /\ UNCHANGED ingestVars
    /\ UNCHANGED <<cfg, now, poller, proc, schema, query, fetch, load, db>>

\* The loop over rows.Next(): the first failing Scan ends the handler with
\* 500; else 200 and the list.
Encoded(scanned) ==
    IF \E i \in DOMAIN scanned : scanned[i].err # Nil
    THEN AnswerMarket(500, scanned[CHOOSE i \in DOMAIN scanned :
                                      /\ scanned[i].err # Nil
                                      /\ \A j \in 1..(i - 1) : scanned[j].err = Nil].err, <<>>)
    ELSE AnswerMarket(200, Nil, [i \in DOMAIN scanned |-> scanned[i].v])

\* handleQuery: 405 for a method other than GET; 500 when app.db.QueryContext
\* fails, its deadline of 5 seconds included.
handleQueryMarket(outcome) ==
    CASE outcome = "method" -> AnswerMarket(405, [kind |-> "method"], <<>>)
      [] outcome = "error" -> AnswerMarket(500, [kind |-> "QueryContext"], <<>>)
      [] outcome = "ok" ->
            /\ "market_data" \in schema
            /\ \E res \in OrderByDesc(Rows(table.market_data), DOMAIN table.market_data, QueryLimit) :
                  Encoded([i \in DOMAIN res |-> RowsScan(res[i], Columns, Dest)])

(***************************************************************************)
(* Payloads.  Numbers are integers: a price is written in hundredths       *)
(* (25433.8 is 2543380), and time_in_millis is kept below 2^31.            *)
(***************************************************************************)
Absent == [t |-> "absent"]

\* The JSON object with the given <<key, value>> members; a member whose
\* value is Absent is left out.
MakeObject(pairs) ==
    LET present == {i \in DOMAIN pairs : pairs[i][2].t # "absent"}
    IN JObj([k \in {pairs[i][1] : i \in present} |->
                pairs[CHOOSE i \in present : pairs[i][1] = k][2]])

TsNifty == <<"2","0","2","5","-","1","1","-","0","7"," ","0","6",":","5","2",":","3","8">>
TsReliance == <<"2","0","2","5","-","1","1","-","0","7"," ","0","7",":","3","3",":","0","6">>
LttNifty == <<"2","0","2","5","-","1","1","-","0","7"," ","0","4",":","0","0",":","0","0">>
TsUnix == <<"1","6","4","0","9","9","5","8","0","0">>
LttUnix == <<"1","6","4","0","9","9","5","7","9","5">>

OhlcNifty ==
    MakeObject(<<<<"open", JNum(2543380)>>, <<"high", JNum(2555125)>>, <<"low", JNum(2531845)>>,
                 <<"close", JNum(2550970)>>, <<"volume", JNum(0)>>>>)

OhlcPartial == MakeObject(<<<<"open", JNum(14900)>>, <<"volume", JNum(1000000)>>>>)

SnapshotJSON(ts, ltt, lastPrice, ohlc) ==
    MakeObject(<<<<"timestamp", ts>>, <<"lastTradeTime", ltt>>, <<"lastPrice", lastPrice>>,
                 <<"ohlc", ohlc>>>>)

EnvelopeJSON(requestID, millis, tokenData) ==
    MakeObject(<<<<"data", MakeObject(<<<<"request_id", requestID>>,
                                        <<"time_in_millis", millis>>,
                                        <<"token_data", tokenData>>>>)>>,
                 <<"success", JBool(TRUE)>>>>)

\* The envelope of testMarketDataPipeline: "TEST|Nifty 50" with ohlc,
\* "TEST|RELIANCE" without it and with the sentinel as lastTradeTime.
NiftyJSON ==
    MakeObject(<<<<"timestamp", JStr(TsNifty)>>, <<"lastTradeTime", JStr(LttNifty)>>,
                 <<"lastPrice", JNum(1234560)>>, <<"closePrice", JNum(2550970)>>,
                 <<"netChange", JNum(-1740)>>, <<"ohlc", OhlcNifty>>>>)

RelianceJSON ==
    MakeObject(<<<<"timestamp", JStr(TsReliance)>>, <<"lastTradeTime", JStr(Sentinel)>>,
                 <<"lastPrice", JNum(78900)>>, <<"closePrice", JNum(0)>>,
                 <<"netChange", JNum(0)>>>>)

TestEnvelope ==
    EnvelopeJSON(JStr("WUPW-test-run"), JNum(1762521758),
                 MakeObject(<<<<"TEST|Nifty 50", NiftyJSON>>, <<"TEST|RELIANCE", RelianceJSON>>>>))

Instruments == {"TEST|Nifty 50", "TEST|RELIANCE"}

TimestampJSON == {Absent, JStr(TsNifty), JStr(TsUnix), JStr(Sentinel)}

LastTradeTimeJSON == {Absent, JStr(LttNifty), JStr(LttUnix), JStr(Sentinel)}

OhlcJSON == {Absent, JNull, OhlcNifty, OhlcPartial}

Snapshots ==
    {SnapshotJSON(ts, ltt, JNum(78900), ohlc) :
        ts \in TimestampJSON, ltt \in LastTradeTimeJSON, ohlc \in OhlcJSON}

TokenDataJSON ==
    {MakeObject(<<<<"TEST|Nifty 50", a>>, <<"TEST|RELIANCE", b>>>>) :
        a \in Snapshots \cup {Absent}, b \in Snapshots \cup {Absent}}

\* Close to the sentinel: one second after it, and the sentinel followed by
\* a space.
NearSentinel == <<"1","9","7","0","-","0","1","-","0","1"," ","0","5",":","3","0",":","0","1">>

NearSentinelEnvelope ==
    EnvelopeJSON(JStr("upstox-req-12345"), JNum(1500),
                 MakeObject(<<<<"TEST|Nifty 50",
                                SnapshotJSON(JStr(Sentinel), JStr(NearSentinel), JNum(78900), Absent)>>,
                              <<"TEST|RELIANCE",
                                SnapshotJSON(JStr(TsNifty), JStr(Sentinel \o <<" ">>), JNum(78900), Absent)>>>>))

MarketBodies ==
    {EnvelopeJSON(JStr("upstox-req-12345"), JNum(1500), td) : td \in TokenDataJSON}
    \cup {TestEnvelope, NearSentinelEnvelope, JInvalid, JNull, JArr(<<>>),
          EnvelopeJSON(Absent, Absent, Absent),
          EnvelopeJSON(JStr("upstox-req-12345"), JStr(TsUnix), JNull),
          EnvelopeJSON(JNull, JNum(-1), MakeObject(<<<<"TEST|RELIANCE", JNull>>>>)),
          EnvelopeJSON(JStr("upstox-req-12345"), JNum(1500),
                       MakeObject(<<<<"TEST|RELIANCE",
                                      SnapshotJSON(JNum(1640995800), Absent, JNum(78900), Absent)>>>>))}

SmallMarketBodies ==
    {TestEnvelope, JInvalid,
     EnvelopeJSON(JStr("upstox-req-12345"), JNum(1500),
                  MakeObject(<<<<"TEST|RELIANCE", SnapshotJSON(JStr(TsUnix), Absent, JNum(78900), Absent)>>>>))}

\* Event payloads
TsEvent == <<"2","0","2","4","-","0","1","-","1","5","T","1","0",":","3","0",":","0","0","Z">>

EventJSON(ts, level, message, context) ==
    MakeObject(<<<<"timestamp", ts>>, <<"level", level>>, <<"source", JStr("system-test")>>,
                 <<"message", message>>, <<"context", context>>>>)

EventObjects ==
    {EventJSON(ts, level, message, context) :
        ts \in {Absent, JStr(TsEvent), JStr(TsNifty)},
        level \in {JStr("TEST"), JNum(5)},
        message \in {JStr("run-1"), JStr("run-2")},
        context \in {Absent, MakeObject(<<<<"test", JStr("true")>>>>)}}

MaxBatch == 2

ArrayElements == EventObjects \cup {JNull, JNum(7)}

EventArrays == UNION {[1..k -> ArrayElements] : k \in 0..MaxBatch}

EventBodies == EventObjects \cup {JArr(a) : a \in EventArrays} \cup {JInvalid, JNull, JNum(7)}

EventOne == EventJSON(JStr(TsEvent), JStr("TEST"), JStr("run-1"), MakeObject(<<<<"test", JStr("true")>>>>))
EventTwo == EventJSON(JStr(TsEvent), JStr("INFO"), JStr("run-2"), Absent)

\* Events for the query: EventOne at 10:30:00, one half a second and one a
\* second after it, and a batch of QueryLimit + 1 events of the minute before.
TsHalf == <<"2","0","2","4","-","0","1","-","1","5","T","1","0",":","3","0",":","0","0",".","5","Z">>
TsLater == <<"2","0","2","4","-","0","1","-","1","5","T","1","0",":","3","0",":","0","1","Z">>

EventHalf == EventJSON(JStr(TsHalf), JStr("TEST"), JStr("run-3"), Absent)
EventLater == EventJSON(JStr(TsLater), JStr("TEST"), JStr("run-4"), Absent)

DigitChars == <<"0", "1", "2", "3", "4", "5", "6", "7", "8", "9">>

TsBatch(k) ==
    <<"2","0","2","4","-","0","1","-","1","5","T","1","0",":","2","9",":">>
        \o <<DigitChars[(k \div 10) + 1], DigitChars[(k % 10) + 1], "Z">>

EventBatch ==
    JArr([k \in 1..(QueryLimit + 1) |-> EventJSON(JStr(TsBatch(k - 1)), JStr("INFO"), JStr("batch"), Absent)])

QueryEventBodies == {EventOne, EventHalf, EventLater}

\* The rows that an accepted request of EventBatch has left in the table.
Stored == Tagged(0, UnmarshalEvents(EventBatch).v)

SmallEventBodies == {EventOne, JArr(<<EventOne, EventTwo>>), JArr(<<>>), JInvalid}

(***************************************************************************)
(* Specifications.  Spec: the requests of both services run concurrently.  *)
(* SpecMarket and SpecEvents: one request of one service, over all the     *)
(* payloads above.                                                         *)
(***************************************************************************)
\* What a step of a handleIngest leaves alone.
others == <<cfg, now, poller, proc, schema, query, results, fetch, load, db>>

Next ==
    \E r \in Reqs :
        \/ EventsReceive(r, SmallEventBodies) /\ UNCHANGED others
        \/ EventsPrepare(r) /\ UNCHANGED others
        \/ EventsExec(r) /\ UNCHANGED others
        \/ EventsCommit(r) /\ UNCHANGED others
        \/ MarketReceive(r, SmallMarketBodies) /\ UNCHANGED others
        \/ MarketPrepare(r) /\ UNCHANGED others
        \/ MarketExec(r) /\ UNCHANGED others
        \/ MarketCommit(r) /\ UNCHANGED others

Spec == Init /\ [][Next]_vars

NextMarket ==
    \/ MarketReceive(1, MarketBodies) /\ UNCHANGED others
    \/ MarketPrepare(1) /\ UNCHANGED others
    \/ MarketExec(1) /\ UNCHANGED others
    \/ MarketCommit(1) /\ UNCHANGED others

SpecMarket == Init /\ [][NextMarket]_vars

\* SpecStall: the requests of both services with a store that can leave an
\* insert unanswered, for a while or for ever.  A handler takes its next
\* step whenever it is not waiting for the store.
Handler(r) ==
    \/ EventsPrepare(r) /\ UNCHANGED others
    \/ EventsExec(r) /\ UNCHANGED others
    \/ EventsCommit(r) /\ UNCHANGED others
    \/ MarketPrepare(r) /\ UNCHANGED others
    \/ MarketExec(r) /\ UNCHANGED others
    \/ MarketCommit(r) /\ UNCHANGED others

NextStall ==
    \E r \in Reqs :
        \/ EventsReceive(r, SmallEventBodies) /\ UNCHANGED others
        \/ MarketReceive(r, SmallMarketBodies) /\ UNCHANGED others
        \/ Handler(r)
        \/ ExecStalls(r) /\ UNCHANGED others
        \/ ExecResumes(r) /\ UNCHANGED others

SpecStall == Init /\ [][NextStall]_vars /\ \A r \in Reqs : WF_vars(Handler(r))

NextEvents ==
    \/ EventsReceive(1, EventBodies) /\ UNCHANGED others
    \/ EventsPrepare(1) /\ UNCHANGED others
    \/ EventsExec(1) /\ UNCHANGED others
    \/ EventsCommit(1) /\ UNCHANGED others

SpecEvents == Init /\ [][NextEvents]_vars

\* SpecPoller: the market poller alone, over the windows and the clock
\* readings above.
NextPoller ==
    \/ \E e \in Envs : PollerMain(e[1], e[2]) /\ UNCHANGED ingestVars /\ UNCHANGED <<proc, schema, query, results, fetch, load, db>>
    \/ \E t \in Instants : runFetchCycle(t) /\ UNCHANGED ingestVars /\ UNCHANGED <<proc, schema, query, results, fetch, load, db>>
    \/ \E o \in {"bad request", "error", "unreadable", "non-200", "200"} :
           CycleFetch(o) /\ UNCHANGED ingestVars /\ UNCHANGED <<proc, schema, query, results, fetch, load, db>>
    \/ \E o \in {"error", "non-202", "202"} :
           CycleIngest(o) /\ UNCHANGED ingestVars /\ UNCHANGED <<proc, schema, query, results, fetch, load, db>>
    \/ Ticker /\ UNCHANGED ingestVars /\ UNCHANGED <<proc, schema, query, results, fetch, load, db>>

SpecPoller == Init /\ [][NextPoller]_vars

\* SpecGate: the poller started on one of several days, at the end of a
\* year, of a month and of February in a leap year, and the gate asked on
\* that day and on later days of other months and of the next year.
StartDays == {Date(2024, 12, 31, 8, 0, 0, 0), Date(2025, 1, 31, 8, 0, 0, 0)}

GateEnvs == {<<Clock0915, Clock1530>>, <<<<"0", "0", ":", "0", "0">>, <<"2", "3", ":", "5", "9">>>>}

GateInstants ==
    {Date(2024, 2, 29, 10, 1, 0, 0), Date(2024, 3, 1, 9, 16, 0, 0),
     Date(2024, 12, 31, 15, 29, 0, 0), Date(2025, 1, 1, 9, 15, 0, 0),
     Date(2025, 1, 1, 12, 0, 0, 0), Date(2025, 1, 31, 15, 30, 0, 0),
     Date(2025, 2, 1, 10, 0, 0, 0), Date(2025, 2, 3, 9, 16, 0, 0),
     Date(2025, 3, 3, 15, 31, 0, 0)}

\* The process is started at t rather than at Boot.
StartedAt(t) ==
    /\ poller.pc = "load" /\ now = Boot
    /\ now' = t
    /\ UNCHANGED <<cfg, poller>>

NextGate ==
    \/ \E t \in StartDays : StartedAt(t) /\ UNCHANGED ingestVars /\ UNCHANGED <<proc, schema, query, results, fetch, load, db>>
    \/ \E e \in GateEnvs : PollerMain(e[1], e[2]) /\ UNCHANGED ingestVars /\ UNCHANGED <<proc, schema, query, results, fetch, load, db>>
    \/ \E t \in GateInstants : runFetchCycle(t) /\ UNCHANGED ingestVars /\ UNCHANGED <<proc, schema, query, results, fetch, load, db>>
    \/ \E o \in {"bad request", "error", "unreadable", "non-200", "200"} :
           CycleFetch(o) /\ UNCHANGED ingestVars /\ UNCHANGED <<proc, schema, query, results, fetch, load, db>>
    \/ \E o \in {"error", "non-202", "202"} :
           CycleIngest(o) /\ UNCHANGED ingestVars /\ UNCHANGED <<proc, schema, query, results, fetch, load, db>>
    \/ Ticker /\ UNCHANGED ingestVars /\ UNCHANGED <<proc, schema, query, results, fetch, load, db>>

SpecGate == Init /\ [][NextGate]_vars

\* SpecPollerLive: the poller without an end, on a Monday, with the window
\* 09:15-15:30 or with an end of the window that does not parse.  The
\* process takes its next step (every HTTP call of cfg.HttpClient returns
\* within its Timeout) and the ticker ticks.
LiveEnvs == {<<Clock0915, Clock1530>>, <<Clock0915, <<"1", "5", "3", "0">>>>}

LiveInstants ==
    {Date(2025, 11, 3, 9, 14, 0, 0), Date(2025, 11, 3, 9, 15, 0, 0), Date(2025, 11, 3, 9, 16, 0, 0),
     Date(2025, 11, 3, 15, 30, 0, 0), Date(2025, 11, 3, 15, 31, 0, 0)}

NextPollerLive ==
    \/ \E e \in LiveEnvs : PollerMain(e[1], e[2]) /\ UNCHANGED ingestVars /\ UNCHANGED <<proc, schema, query, results, fetch, load, db>>
    \/ \E t \in LiveInstants : runFetchCycle(t) /\ UNCHANGED ingestVars /\ UNCHANGED <<proc, schema, query, results, fetch, load, db>>
    \/ \E o \in {"bad request", "error", "unreadable", "non-200", "200"} :
           CycleFetch(o) /\ UNCHANGED ingestVars /\ UNCHANGED <<proc, schema, query, results, fetch, load, db>>
    \/ \E o \in {"error", "non-202", "202"} :
           CycleIngest(o) /\ UNCHANGED ingestVars /\ UNCHANGED <<proc, schema, query, results, fetch, load, db>>
    \/ Ticker /\ UNCHANGED ingestVars /\ UNCHANGED <<proc, schema, query, results, fetch, load, db>>
    \/ TickerOn /\ UNCHANGED ingestVars /\ UNCHANGED <<proc, schema, query, results, fetch, load, db>>

SpecPollerLive == Init /\ [][NextPollerLive]_vars /\ WF_vars(NextPollerLive)

\* SpecQuery: requests of the events service, one after the other, and
\* queries of the events at any time.
NextQuery ==
    \/ \E r \in Reqs :
          \/ /\ IF r = 1 THEN TRUE ELSE pc[r - 1] = "done"
             /\ EventsReceive(r, QueryEventBodies) /\ UNCHANGED others
          \/ EventsPrepare(r) /\ UNCHANGED others
          \/ EventsExec(r) /\ UNCHANGED others
          \/ EventsCommit(r) /\ UNCHANGED others
    \/ \E outcome \in {"method", "error", "ok"} : handleQuery(outcome)

\* The services listen; the table of events is empty or holds the rows of
\* an earlier batch.
InitQuery ==
    /\ Quiet
    /\ table \in {[events |-> rows, market_data |-> <<>>] : rows \in {<<>>, Stored}}
    /\ proc = [service \in Services |-> "serving"]
    /\ schema = {"events", "market_data"}

SpecQuery == InitQuery /\ [][NextQuery]_vars

\* SpecQueryMarket: requests of the market data service, one after the
\* other, and queries of the market data at any time.
NextQueryMarket ==
    \/ \E r \in Reqs :
          \/ /\ IF r = 1 THEN TRUE ELSE pc[r - 1] = "done"
             /\ MarketReceive(r, SmallMarketBodies) /\ UNCHANGED others
          \/ MarketPrepare(r) /\ UNCHANGED others
          \/ MarketExec(r) /\ UNCHANGED others
          \/ MarketCommit(r) /\ UNCHANGED others
    \/ \E outcome \in {"method", "error", "ok"} : handleQueryMarket(outcome)

SpecQueryMarket == Init /\ [][NextQueryMarket]_vars

\* SpecSystem: the ingest services from the start of their processes, with
\* requests one after the other, the query service and the poller.  The
\* store is new, or it holds the tables and a row of an earlier run.  The
\* poller shares no variable with the ingest services: a behaviour has the
\* ingest services launched and the poller down, or the poller launched and
\* the ingest services down.
InitBoot ==
    /\ NoRequest
    /\ \/ schema = {} /\ table = [events |-> <<>>, market_data |-> <<>>]
       \/ schema = {"events", "market_data"} /\ table = [events |-> SubSeq(Stored, 1, 1), market_data |-> <<>>]
    /\ \/ proc = [service \in Services |-> "start"] /\ poller = [Launched EXCEPT !.pc = "exited"]
       \/ proc = [service \in Services |-> "exited"] /\ poller = Launched

mainRest == <<cfg, now, poller, query, results, fetch, load, db>>

pollerRest == <<proc, schema, query, results, fetch, load, db>>

NextSystem ==
    \/ \E service \in Services : \E outcome \in {"ok", "connect failed", "schema failed"} :
          MainInit(service, outcome) /\ UNCHANGED requestVars /\ UNCHANGED mainRest
    \/ \E service \in Services : \E ok \in BOOLEAN :
          MainListen(service, ok) /\ UNCHANGED requestVars /\ UNCHANGED mainRest
    \/ \E r \in Reqs :
          \/ /\ IF r = 1 THEN TRUE ELSE pc[r - 1] = "done"
             /\ EventsReceive(r, {EventOne}) /\ UNCHANGED others
          \/ EventsPrepare(r) /\ UNCHANGED others
          \/ EventsExec(r) /\ UNCHANGED others
          \/ EventsCommit(r) /\ UNCHANGED others
          \/ /\ IF r = 1 THEN TRUE ELSE pc[r - 1] = "done"
             /\ MarketReceive(r, {TestEnvelope}) /\ UNCHANGED others
          \/ MarketPrepare(r) /\ UNCHANGED others
          \/ MarketExec(r) /\ UNCHANGED others
          \/ MarketCommit(r) /\ UNCHANGED others
    \/ \E outcome \in {"method", "error", "ok"} : handleQuery(outcome)
    \/ PollerMain(Clock0915, Clock1530) /\ UNCHANGED ingestVars /\ UNCHANGED pollerRest
    \/ \E t \in {Date(2025, 11, 3, 9, 14, 0, 0), Date(2025, 11, 3, 9, 16, 0, 0)} :
          runFetchCycle(t) /\ UNCHANGED ingestVars /\ UNCHANGED pollerRest
    \/ \E o \in {"error", "200"} : CycleFetch(o) /\ UNCHANGED ingestVars /\ UNCHANGED pollerRest
    \/ \E o \in {"error", "202"} : CycleIngest(o) /\ UNCHANGED ingestVars /\ UNCHANGED pollerRest
    \/ Ticker /\ UNCHANGED ingestVars /\ UNCHANGED pollerRest

SpecSystem == InitBoot /\ [][NextSystem]_vars

\* SpecInstances: the ingest services, started any number of times, with
\* requests one after the other.  The store is new, or it holds the tables
\* and a row of an earlier run.
InitInstances ==
    /\ Quiet
    /\ proc = [service \in Services |-> "start"]
    /\ \/ schema = {} /\ table = [events |-> <<>>, market_data |-> <<>>]
       \/ schema = {"events", "market_data"} /\ table = [events |-> SubSeq(Stored, 1, 1), market_data |-> <<>>]

NextInstances ==
    \/ \E service \in Services : \E outcome \in {"ok", "connect failed", "schema failed"} :
          MainInit(service, outcome) /\ UNCHANGED requestVars /\ UNCHANGED mainRest
    \/ \E service \in Services : \E ok \in BOOLEAN :
          MainListen(service, ok) /\ UNCHANGED requestVars /\ UNCHANGED mainRest
    \/ \E service \in Services : Launch(service) /\ UNCHANGED requestVars /\ UNCHANGED mainRest
    \/ \E r \in Reqs :
          \/ /\ IF r = 1 THEN TRUE ELSE pc[r - 1] = "done"
             /\ EventsReceive(r, {EventOne}) /\ UNCHANGED others
          \/ EventsPrepare(r) /\ UNCHANGED others
          \/ EventsExec(r) /\ UNCHANGED others
          \/ EventsCommit(r) /\ UNCHANGED others
          \/ /\ IF r = 1 THEN TRUE ELSE pc[r - 1] = "done"
             /\ MarketReceive(r, {TestEnvelope}) /\ UNCHANGED others
          \/ MarketPrepare(r) /\ UNCHANGED others
          \/ MarketExec(r) /\ UNCHANGED others
          \/ MarketCommit(r) /\ UNCHANGED others

SpecInstances == InitInstances /\ [][NextInstances]_vars

\* SpecConnect: main of the two ingest services with database.Connect
\* followed ping by ping; main goes on with what Connect has returned.
mainButDb == <<cfg, now, poller, query, results, fetch, load>>

NextConnect ==
    \/ \E service \in Services : \E ok \in BOOLEAN :
          ConnectOpen(service, ok) /\ UNCHANGED requestVars /\ UNCHANGED mainButDb
    \/ \E service \in Services : \E ok \in BOOLEAN :
          ConnectPing(service, ok) /\ UNCHANGED requestVars /\ UNCHANGED mainButDb
    \/ \E service \in Services : \E outcome \in {"ok", "connect failed", "schema failed"} :
          /\ db[service].pc = "returned"
          /\ outcome = "connect failed" <=> db[service].err # Nil
          /\ MainInit(service, outcome) /\ UNCHANGED requestVars /\ UNCHANGED mainRest
    \/ \E service \in Services : \E ok \in BOOLEAN :
          MainListen(service, ok) /\ UNCHANGED requestVars /\ UNCHANGED mainRest

SpecConnect == InitInstances /\ [][NextConnect]_vars

(***************************************************************************)
(* Properties of the transactional write (specification Spec).             *)
(***************************************************************************)
TableOf(r) == IF svc[r] = "events" THEN "events" ELSE "market_data"

\* The rows of call r that a read of the table t sees.
Visible(r, t) == Rows(SelectSeq(table[t], LAMBDA x : x.call = r))

\* All the rows call r is given, in the order of its loop.
RowsOf(r) ==
    IF svc[r] = "events" THEN dec[r].events
    ELSE [i \in 1..Len(order[r]) |-> MarketRow(r, i)]

Failed(r, op) == \E i \in DOMAIN calls[r] : calls[r][i] = Call(op, FALSE)

\* C1: once the store has failed on the insert of a row of a call, the
\* transaction is rolled back (the rollback is the last store call of the
\* handler, which answers 500) and no row of the call, the rows executed
\* before the failure included, is visible in either table, in that state
\* and in every later one.
C1_RolledBackOnExecFailure ==
    \A r \in Reqs :
        Failed(r, "Exec") =>
            /\ tx[r] = [state |-> "rolledback", rows |-> <<>>]
            /\ calls[r][Len(calls[r])] = Call("Rollback", TRUE)
            /\ resp[r].status = 500 /\ pc[r] = "done"
            /\ Visible(r, "events") = <<>> /\ Visible(r, "market_data") = <<>>

\* C1 witness: a call failed on a row after an earlier row of it had been
\* executed, while the table holds the rows committed by another call.
C1_Witness ==
    \E r, q \in Reqs :
        /\ r # q /\ Failed(r, "Exec") /\ n[r] >= 1
        /\ TableOf(q) = TableOf(r) /\ Len(Visible(q, TableOf(r))) >= 2

\* C2: in every reachable state of the concurrent handlers, each call
\* contributes to each table either none of its rows or, to its own table,
\* all of them in the order given: a read never sees a strict non-empty
\* subset of a call's rows.
C2_AllOrNothing ==
    \A r \in Reqs :
        /\ Visible(r, TableOf(r)) \in {<<>>, RowsOf(r)}
        /\ \A t \in {"events", "market_data"} \ {TableOf(r)} : Visible(r, t) = <<>>
        /\ Visible(r, TableOf(r)) # <<>> => tx[r].state = "committed"

\* C2 witness: a call that arrived later has committed its two rows while an
\* earlier call on the same table still holds an executed row in its open
\* transaction.
C2_Witness ==
    \E r, q \in Reqs :
        /\ q < r /\ TableOf(q) = TableOf(r)
        /\ tx[r].state = "committed" /\ Len(Visible(r, TableOf(r))) = 2
        /\ tx[q].state = "open" /\ Len(tx[q].rows) >= 1 /\ Visible(q, TableOf(q)) = <<>>

\* C4: a request is answered 202 exactly when its transaction was committed,
\* and then all its rows are visible; after a failed begin, prepare, insert
\* or commit the answer is 500, never 202.
C4_AcceptedIffCommitted ==
    \A r \in Reqs :
        /\ resp[r].status = 202 <=> tx[r].state = "committed"
        /\ resp[r].status = 202 =>
              /\ Visible(r, TableOf(r)) = RowsOf(r)
              /\ \A i \in DOMAIN calls[r] : calls[r][i].ok
        /\ (\E i \in DOMAIN calls[r] : ~calls[r][i].ok) => resp[r].status = 500

\* C4 witness: one request accepted after its commit, another answered 500
\* after its commit failed with every row executed.
C4_Witness ==
    \E r, q \in Reqs :
        /\ resp[r].status = 202 /\ Len(Visible(r, TableOf(r))) = 2
        /\ Failed(q, "Commit") /\ n[q] = 2 /\ resp[q].status = 500

(***************************************************************************)
(* Properties of the flattening (specification SpecMarket).                *)
(***************************************************************************)
Market == {r \in Reqs : svc[r] = "marketdata" /\ calls[r] # <<>>}

TokenData(r) == apiResp[r].Data.TokenData

\* The rows call r has executed so far, pending or committed; row i is the
\* row of the instrument order[r][i].
Written(r) == IF tx[r].state = "committed" THEN Visible(r, "market_data") ELSE tx[r].rows

WellFormed(s) == timeParse(s).err = Nil

AllOk(r) == \A i \in DOMAIN calls[r] : calls[r][i].ok

OhlcMember(r, x) ==
    LET snap == body[r].v["data"].v["token_data"].v[x]
    IN IF snap.t = "object" /\ "ohlc" \in DOMAIN snap.v THEN snap.v["ohlc"] ELSE Absent

OhlcOfRow(row) == <<row.OhlcOpen, row.OhlcHigh, row.OhlcLow, row.OhlcClose, row.OhlcVolume>>

\* C6: the row of an instrument without ohlc (absent or null) has the five
\* OHLC fields zero, the row of an instrument with ohlc carries its five
\* values (a missing one being zero); both depend on that instrument alone,
\* in either order of iteration.
C6_OhlcPerInstrument ==
    \A r \in Market :
        \A i \in DOMAIN Written(r) :
            LET o == OhlcMember(r, order[r][i])
            IN IF o.t \in {"absent", "null"}
               THEN OhlcOfRow(Written(r)[i]) = <<0, 0, 0, 0, 0>>
               ELSE OhlcOfRow(Written(r)[i]) =
                        [k \in 1..5 |-> IF OhlcFields[k] \in DOMAIN o.v
                                        THEN o.v[OhlcFields[k]].v ELSE 0]

\* C6 witness: two rows committed, the first of an instrument with ohlc, the
\* second, visited after it, of an instrument without, all zero.
C6_Witness ==
    \E r \in Market :
        /\ Len(Visible(r, "market_data")) = 2
        /\ OhlcMember(r, order[r][1]).t = "object"
        /\ Visible(r, "market_data")[1].OhlcOpen # 0
        /\ OhlcMember(r, order[r][2]).t = "absent"
        /\ OhlcOfRow(Visible(r, "market_data")[2]) = <<0, 0, 0, 0, 0>>

\* C7: the row of a snapshot whose lastTradeTime is the sentinel
\* "1970-01-01 05:30:00" carries 1970-01-01 00:00:00 as last-trade-time.
C7_SentinelIsEpochMidnight ==
    \A r \in Market :
        \A i \in DOMAIN Written(r) :
            TokenData(r)[order[r][i]].LastTradeTime = Sentinel =>
                Written(r)[i].LastTradeTime = Date(1970, 1, 1, 0, 0, 0, 0)

\* C7 witness: a committed row of a snapshot with the sentinel.
C7_Witness ==
    \E r \in Market :
        \E i \in DOMAIN Visible(r, "market_data") :
            /\ TokenData(r)[order[r][i]].LastTradeTime = Sentinel
            /\ Visible(r, "market_data")[i].LastTradeTime.h = 0

\* The five values of the "ohlc" object of instrument x, a missing one zero.
GivenOhlc(r, x) ==
    [k \in 1..5 |-> IF OhlcFields[k] \in DOMAIN OhlcMember(r, x).v
                    THEN OhlcMember(r, x).v[OhlcFields[k]].v ELSE 0]

OneWithOhlcOneWithout(r) ==
    /\ Cardinality(DOMAIN TokenData(r)) = 2
    /\ \E x, y \in DOMAIN TokenData(r) :
          OhlcMember(r, x).t = "object" /\ OhlcMember(r, y).t = "absent"

\* C8: all rows of one envelope carry its request_id and the instant of its
\* time_in_millis, each row the name of its own instrument; the envelope of
\* the system test (two instruments, one with ohlc, one without) is never
\* rejected as malformed and, when the store does not fail, is accepted
\* with exactly 2 rows, one with the given OHLC values and one all zero.
C8_EnvelopeFieldsShared ==
    \A r \in Reqs :
        /\ r \in Market =>
              \A i \in DOMAIN Written(r) :
                  LET row == Written(r)[i]
                  IN /\ row.RequestID = apiResp[r].Data.RequestID
                     /\ row.ResponseTime.sec * 1000 + row.ResponseTime.nsec \div 1000000
                            = apiResp[r].Data.TimeInMillis
                     /\ row.ResponseTime.nsec \in 0..999999999
                     /\ row.TokenName = order[r][i]
        /\ r \in Market /\ OneWithOhlcOneWithout(r) /\ pc[r] = "done" /\ AllOk(r) =>
              /\ resp[r].status = 202
              /\ Len(Visible(r, "market_data")) = 2
              /\ \E i, j \in 1..2 :
                    /\ i # j
                    /\ OhlcMember(r, order[r][i]).t = "object"
                    /\ OhlcOfRow(Visible(r, "market_data")[i]) = GivenOhlc(r, order[r][i])
                    /\ OhlcOfRow(Visible(r, "market_data")[j]) = <<0, 0, 0, 0, 0>>
                    /\ OhlcMember(r, order[r][j]).t = "absent"
        /\ body[r] = TestEnvelope =>
              /\ resp[r].status \in {0, 202, 500}
              /\ pc[r] = "done" /\ AllOk(r) =>
                    /\ resp[r].status = 202
                    /\ {OhlcOfRow(Visible(r, "market_data")[i]) : i \in DOMAIN Visible(r, "market_data")}
                           = {<<2543380, 2555125, 2531845, 2550970, 0>>, <<0, 0, 0, 0, 0>>}
                    /\ Len(Visible(r, "market_data")) = 2
                    /\ \A i \in 1..2 :
                          /\ Visible(r, "market_data")[i].RequestID = "WUPW-test-run"
                          /\ Visible(r, "market_data")[i].ResponseTime = [sec |-> 1762521, nsec |-> 758000000]

\* C8 witness: the envelope of the system test, accepted.
C8_Witness ==
    \E r \in Reqs :
        /\ body[r] = TestEnvelope /\ resp[r].status = 202
        /\ Len(Visible(r, "market_data")) = 2

(***************************************************************************)
(* Properties of the flexible decoding (specification SpecEvents).         *)
(***************************************************************************)
Decoded == {r \in Reqs : svc[r] = "events" /\ dec[r] # NotDecoded}

ValidObject(j) == j.t = "object" /\ UnmarshalEvent(j).err = Nil

\* C9: a payload that is one valid event object is decoded to the slice of
\* exactly that event: the array attempt fails, the single attempt succeeds
\* and is wrapped; the request goes on to the writer (a transaction is
\* begun) and the rows it writes are that one event.
C9_SingleObjectWrapped ==
    \A r \in Decoded :
        ValidObject(body[r]) =>
            /\ dec[r].ok /\ dec[r].single /\ dec[r].err # Nil
            /\ dec[r].events = <<UnmarshalEvent(body[r]).v>>
            /\ calls[r] # <<>> /\ calls[r][1].op = "Begin"
            /\ resp[r].status \in {0, 202, 500}
            /\ \A i \in DOMAIN tx[r].rows : tx[r].rows[i] = UnmarshalEvent(body[r]).v
            /\ resp[r].status = 202 => Visible(r, "events") = <<UnmarshalEvent(body[r]).v>>

\* C9 witness: a single object with all five members, accepted and visible.
C9_Witness ==
    \E r \in Decoded :
        /\ ValidObject(body[r]) /\ DOMAIN body[r].v = {"timestamp", "level", "source", "message", "context"}
        /\ resp[r].status = 202 /\ Len(Visible(r, "events")) = 1
        /\ Visible(r, "events")[1].Message = "run-1"

ValidArray(j) == j.t = "array" /\ \A i \in DOMAIN j.v : ValidObject(j.v[i])

\* C10: a payload that is an array of N valid event objects, N >= 0, is
\* decoded by the array attempt alone to a slice of length N whose i-th
\* element is the parse of the i-th element of the array.
C10_ArrayInOrder ==
    \A r \in Decoded :
        ValidArray(body[r]) =>
            /\ dec[r].ok /\ ~dec[r].single /\ dec[r].err = Nil /\ dec[r].err2 = Nil
            /\ Len(dec[r].events) = Len(body[r].v)
            /\ \A i \in DOMAIN body[r].v : dec[r].events[i] = UnmarshalEvent(body[r].v[i]).v

\* C10 witness: an array of MaxBatch objects whose first two differ, decoded
\* in the order of the array.
C10_Witness ==
    \E r \in Decoded :
        /\ ValidArray(body[r]) /\ Len(dec[r].events) = MaxBatch
        /\ dec[r].events[1].Message = "run-2" /\ dec[r].events[2].Message = "run-1"

\* C11: an events payload that decodes to an empty slice (the empty array,
\* or null) is answered 400 before any transaction is begun: the handler
\* makes no store call at all and the table has no row of the request.
C11_EmptyBatchRejected ==
    \A r \in Decoded :
        dec[r].ok /\ dec[r].events = <<>> =>
            /\ resp[r].status = 400 /\ pc[r] = "done"
            /\ calls[r] = <<>> /\ tx[r] = NoTx
            /\ Visible(r, "events") = <<>>

\* C11 witness: the empty array, decoded by the array attempt and rejected.
C11_Witness ==
    \E r \in Decoded :
        /\ body[r] = JArr(<<>>) /\ dec[r].ok /\ ~dec[r].single
        /\ resp[r].status = 400

\* C12 as stated: when both attempts fail the request is rejected, nothing
\* is written, and the diagnostic reported is the error of the first (the
\* array) attempt.
C12_OriginalDiagnostic ==
    \A r \in Decoded :
        ~dec[r].ok =>
            /\ resp[r].status = 400 /\ calls[r] = <<>>
            /\ dec[r].logged = dec[r].err

(***************************************************************************)
(* Properties of the market-hours gate and of the polling cycle            *)
(* (specification SpecPoller).                                             *)
(***************************************************************************)
\* Of the days of Instants, 1 November 2025 is a Saturday and 2 November
\* 2025 a Sunday; the others are a Thursday, a Friday and a Monday.
OnWeekend(t) == <<t.Y, t.M, t.D>> \in {<<2025, 11, 1>>, <<2025, 11, 2>>}

SecondOfDay(t) == t.h * 3600 + t.m * 60 + t.s

\* The time of day of t is strictly after windowStart and strictly before
\* windowEnd, the two being whole minutes.
StrictlyInside(t, c) ==
    /\ \/ SecondOfDay(t) > SecondOfDay(c.StartTime)
       \/ SecondOfDay(t) = SecondOfDay(c.StartTime) /\ t.ns > 0
    /\ SecondOfDay(t) < SecondOfDay(c.EndTime)

\* C13: at every instant of a Saturday or a Sunday the gate answers false,
\* whatever the window is.
C13_ClosedOnWeekend ==
    \A e \in poller.seen : OnWeekend(e.at) => ~e.open

\* C13 witness: the gate has answered on a Saturday at 10:00 with the
\* window 00:00-23:59.
C13_Witness ==
    /\ cfg.loaded /\ cfg.StartTime.h = 0 /\ cfg.EndTime.h = 23
    /\ [at |-> Date(2025, 11, 1, 10, 0, 0, 0), open |-> FALSE] \in poller.seen

\* C14: at every instant of a Monday to Friday the gate answers true
\* exactly when the time of day is strictly after windowStart and strictly
\* before windowEnd; with the window 09:15-15:30 it answers false at 09:14,
\* at 09:15:00 and at 15:30:00 and true at 09:16.
C14_OpenStrictlyInsideWindow ==
    /\ \A e \in poller.seen :
          ~OnWeekend(e.at) => (e.open <=> StrictlyInside(e.at, cfg))
    /\ (cfg.loaded /\ <<cfg.StartTime.h, cfg.StartTime.m>> = <<9, 15>>
                   /\ <<cfg.EndTime.h, cfg.EndTime.m>> = <<15, 30>>) =>
          \A e \in poller.seen :
              /\ e.at = Date(2025, 11, 3, 9, 14, 0, 0) => ~e.open
              /\ e.at = Date(2025, 11, 3, 9, 15, 0, 0) => ~e.open
              /\ e.at = Date(2025, 11, 3, 9, 16, 0, 0) => e.open
              /\ e.at = Date(2025, 11, 3, 15, 30, 0, 0) => ~e.open

\* C14 witness: with the window 09:15-15:30 the gate has answered false on
\* Monday at 09:15:00 and true at 09:16.
C14_Witness ==
    /\ cfg.loaded /\ <<cfg.StartTime.h, cfg.StartTime.m>> = <<9, 15>>
    /\ [at |-> Date(2025, 11, 3, 9, 15, 0, 0), open |-> FALSE] \in poller.seen
    /\ [at |-> Date(2025, 11, 3, 9, 16, 0, 0), open |-> TRUE] \in poller.seen

\* C15: the gate changes no state: once loaded the configuration never
\* changes, however often the gate is evaluated, and two evaluations at
\* the same instant give the same answer.
C15_GateChangesNothing ==
    /\ [](\A e1, e2 \in poller.seen : e1.at = e2.at => e1.open = e2.open)
    /\ [][cfg.loaded => cfg' = cfg]_vars

\* C15 witness: the gate evaluated twice at the same instant.
C15_Witness ==
    /\ cfg.loaded /\ poller.cycles = 2
    /\ Cardinality(poller.seen) = 1

FetchOrIngest == {"UpstoxURL", "IngestMarketURL"}

\* C16: in a cycle in which the gate has answered false the poller neither
\* fetches from upstream nor posts to the market-data ingest; a fetch or a
\* market ingest in a cycle implies that the gate answered true at the
\* start of that cycle.
C16_NoFetchWhenClosed ==
    /\ ~poller.open => /\ poller.pc \notin {"fetch", "ingest"}
                       /\ \A i \in DOMAIN poller.sent : poller.sent[i].url = "IngestEventsURL"
    /\ \A i \in DOMAIN poller.sent :
          poller.sent[i].url \in FetchOrIngest =>
              /\ poller.open
              /\ [at |-> now, open |-> TRUE] \in poller.seen
              /\ ~OnWeekend(now) /\ StrictlyInside(now, cfg)

\* C16 witness: a cycle with the gate closed, over with one logged event
\* and nothing else, after a cycle that fetched.
C16_Witness ==
    /\ poller.cycles = 2 /\ poller.pc = "wait" /\ ~poller.open
    /\ poller.sent = <<logEvent("INFO", "Market is closed. Sleeping.")>>
    /\ \E e \in poller.seen : e.open

EventPosted(call) ==
    call.method = "POST" /\ call.url = "IngestEventsURL" /\ call.source = "market-poller"

\* C22: a cycle that has started has posted an event with the source
\* "market-poller" to the events ingest, and a cycle that has returned,
\* on whatever path, has posted one as the last thing it did.
C22_EveryCycleLogsAnEvent ==
    /\ poller.pc \in {"fetch", "ingest", "wait"} =>
          \E i \in DOMAIN poller.sent : EventPosted(poller.sent[i])
    /\ poller.pc = "wait" =>
          poller.sent # <<>> /\ EventPosted(poller.sent[Len(poller.sent)])

\* A cycle that the market ingest has answered with a status other than 202:
\* the event of the attempt, the fetch, the ingest and the event of the error.
C22_Witness ==
    /\ poller.pc = "wait"
    /\ poller.sent = <<logEvent("INFO", "Attempting to fetch data"), Get("UpstoxURL", 200, JInvalid),
                       Post("IngestMarketURL", JInvalid, 500),
                       logEvent("ERROR", "Ingest service gave non-202 status")>>
    /\ \E e \in poller.seen : ~e.open

\* C23: a cycle that has started returns, whatever fails in it, and once
\* the configuration is loaded cycles are started again and again.
C23_CyclesStartInfinitelyOften ==
    /\ [](poller.pc \in {"fetch", "ingest"} => <>(poller.pc = "wait"))
    /\ [](poller.pc = "wait" => <>(poller.pc = "cycle"))
    /\ [](poller.pc = "cycle" => <>(poller.pc \in {"fetch", "wait"}))
    /\ [](cfg.loaded => []<>(poller.pc = "cycle"))

\* A tick after a cycle in which the fetch and then the ingest have failed.
C23_Witness ==
    /\ poller.pc = "cycle" /\ poller.cycles = MaxCycles - 1
    /\ \E i \in DOMAIN poller.sent : poller.sent[i] = logEvent("ERROR", "Failed to ingest batch data")
    /\ \E e \in poller.seen : ~e.open

(***************************************************************************)
(* Rollback on the failures of the writer (specification Spec).            *)
(***************************************************************************)
RolledBack(r) == \E i \in DOMAIN calls[r] : calls[r][i].op = "Rollback"

LastCall(r) == calls[r][Len(calls[r])]

\* C18 as stated: whenever the writer returns an error caused by a failure
\* of prepare, of an insert or of the commit, a rollback of the transaction
\* has been performed before.
C18_RollbackBeforeEveryWriteError ==
    \A r \in Reqs :
        (pc[r] = "done" /\ (Failed(r, "Prepare") \/ Failed(r, "Exec") \/ Failed(r, "Commit"))) =>
            RolledBack(r)

\* C18 amended: an error caused by a failure of prepare or of an insert is
\* returned (500) after tx.Rollback() has been called, right after the
\* failed call; an error caused by a failure of the commit is returned (500)
\* without any call of Rollback, the failed Commit being the last call on
\* the transaction.  In the three cases no row of the call is committed.
C18_RollbackBeforePrepareOrExecError ==
    \A r \in Reqs :
        /\ (Failed(r, "Prepare") \/ Failed(r, "Exec")) =>
              /\ pc[r] = "done" /\ resp[r].status = 500
              /\ LastCall(r) = Call("Rollback", TRUE)
              /\ ~calls[r][Len(calls[r]) - 1].ok
              /\ tx[r].state = "rolledback"
              /\ Visible(r, TableOf(r)) = <<>>
        /\ Failed(r, "Commit") =>
              /\ pc[r] = "done" /\ resp[r].status = 500
              /\ LastCall(r) = Call("Commit", FALSE)
              /\ ~RolledBack(r)
              /\ Visible(r, TableOf(r)) = <<>>
        /\ RolledBack(r) => (Failed(r, "Prepare") \/ Failed(r, "Exec"))

\* C18 witness: a commit that failed after an insert, answered 500 without
\* a rollback, while another call was rolled back after a failed insert.
C18_Witness ==
    \E r, q \in Reqs :
        /\ Failed(r, "Commit") /\ Call("Exec", TRUE) \in {calls[r][i] : i \in DOMAIN calls[r]}
        /\ resp[r].status = 500 /\ ~RolledBack(r)
        /\ Failed(q, "Exec") /\ RolledBack(q)

(***************************************************************************)
(* The query of the events, under SpecQuery.                               *)
(***************************************************************************)
AcceptedSingle(r) == svc[r] = "events" /\ body[r].t = "object" /\ resp[r].status = 202

\* The places of the committed row of call r that the last query has read.
Read(r) == {p \in 1..query.at : table.events[p].call = r}

StoredAt(p) == DateTime(table.events[p].row.Timestamp)

Descending(events) ==
    \A i, j \in DOMAIN events : i < j => ~Before(events[i].Timestamp, events[j].Timestamp)

AnswersWith(p) ==
    /\ query.events # <<>>
    /\ Len(query.events) <= QueryLimit
    /\ Descending(query.events)
    /\ query.events[1] = [table.events[p].row EXCEPT !.Timestamp = StoredAt(p)]

\* C20 as stated: after a single-object event was accepted with 202, a
\* successful query returns a non-empty list of at most 10 events in
\* descending order of timestamp whose first element is that event, when no
\* event with a later timestamp was committed between the two.
C20_AcceptedEventIsFirst ==
    \A r \in Reqs : \A p \in Read(r) :
        /\ AcceptedSingle(r)
        /\ query.status = 200
        /\ \A i \in (p + 1)..query.at :
              ~After(table.events[i].row.Timestamp, table.events[p].row.Timestamp)
        => AnswersWith(p)

\* C20, amended: a successful query returns the events it read up to 10, in
\* descending order of the stored timestamp, which keeps whole seconds; after
\* a single-object event was accepted with 202 the first element is that
\* event, with its timestamp cut to the second, when the stored timestamp of
\* every other event committed before the query, before that event or
\* after it, is strictly earlier than its own.
C20_AcceptedEventIsFirstAmongEarlier ==
    /\ query.status = 200 =>
          /\ Len(query.events) = IF query.at < QueryLimit THEN query.at ELSE QueryLimit
          /\ Descending(query.events)
    /\ \A r \in Reqs : \A p \in Read(r) :
          /\ AcceptedSingle(r)
          /\ query.status = 200
          /\ \A i \in (1..query.at) \ {p} : Before(StoredAt(i), StoredAt(p))
          => AnswersWith(p)

\* The query cut the list at 10 events and the accepted event, sent with a
\* fraction of a second, came first.
C20_Witness ==
    \E r \in Reqs : \E p \in Read(r) :
        /\ AcceptedSingle(r)
        /\ query.status = 200
        /\ query.at > QueryLimit
        /\ Len(query.events) = QueryLimit
        /\ table.events[p].row.Timestamp.ns # 0
        /\ \A i \in (1..query.at) \ {p} : Before(StoredAt(i), StoredAt(p))
        /\ AnswersWith(p)

(***************************************************************************)
(* The services from their start, under SpecSystem.                        *)
(***************************************************************************)
Tables == {TableName(service) : service \in Services}

StoreCalled(r) == calls[r] # <<>>

Inserted(r) == \E i \in DOMAIN calls[r] : calls[r][i].op = "Exec"

\* C17: a service that has passed its schema statement, and only such a
\* service, registers its handler and listens; its table exists from then
\* on, so that every request it takes, and every call of a request on the
\* store, the inserts among them, comes after the table was created.  A
\* process whose initialisation fails exits at once, stays exited and takes
\* no request.
C17_SchemaBeforeInsert ==
    /\ [](/\ \A service \in Services :
                /\ proc[service] \in {"initialized", "serving"} => TableName(service) \in schema
                /\ proc[service] # "serving" => \A r \in Reqs : svc[r] # service
          /\ \A r \in Reqs :
                pc[r] # "idle" => proc[svc[r]] = "serving" /\ TableOf(r) \in schema)
    /\ [][\A service \in Services :
              /\ proc[service] = "start" =>
                    \/ proc'[service] = "start"
                    \/ proc'[service] = "exited" /\ schema' = schema
                    \/ proc'[service] = "initialized" /\ TableName(service) \in schema'
              /\ proc'[service] = "serving" => proc[service] \in {"initialized", "serving"}
              /\ proc[service] = "exited" => proc'[service] = "exited"]_vars

\* The events service inserts rows into its table, which its own schema
\* statement has created; the market data service has failed to create its
\* table and has exited.
C17_Witness ==
    \E r \in Reqs :
        /\ svc[r] = "events" /\ Inserted(r) /\ proc["events"] = "serving"
        /\ proc["marketdata"] = "exited" /\ schema = {"events"}

\* C19: no step of a request, of a query, of the poller or of the start of
\* a service removes or changes a row of a table: each table after the step
\* begins with the rows it had before.
C19_AppendOnly ==
    [][\A t \in Tables :
          /\ Len(table[t]) <= Len(table'[t])
          /\ SubSeq(table'[t], 1, Len(table[t])) = table[t]]_vars

\* The row of an earlier run is still the first of the table of events after
\* the schema statement of the service, a committed request and a query.
C19_Witness ==
    \E r \in Reqs :
        /\ table.events # <<>> /\ table.events[1].call = 0
        /\ Visible(r, "events") # <<>>
        /\ Len(table.market_data) > 0
        /\ query.status = 200 /\ query.at > 1

(***************************************************************************)
(* The query of the market data, under SpecQueryMarket.                    *)
(***************************************************************************)
\* The last query was a GET that the store has answered after the rows of
\* call r were committed, and these are among the 10 latest it holds.
QueriedAfter(r) ==
    /\ results.status # 0
    /\ results.err.kind \notin {"method", "QueryContext"}
    /\ Visible(r, "market_data") # <<>>
    /\ \A p \in DOMAIN table.market_data : table.market_data[p].call = r => p <= results.at
    /\ results.at <= QueryLimit

\* C21 as stated: after the envelope of two instruments was accepted with
\* 202, the answer to a later GET /query/marketdata is a list that holds,
\* for each of the two instruments, an entry with its token name and its
\* last price, when both rows are among the 10 latest.
C21_BothInstrumentsReturned ==
    \A r \in Reqs :
        /\ svc[r] = "marketdata" /\ body[r] = TestEnvelope /\ resp[r].status = 202
        /\ QueriedAfter(r)
        => /\ results.status = 200
           /\ \A name \in Instruments : \E i \in DOMAIN results.rows :
                 /\ results.rows[i].Token = name
                 /\ results.rows[i].LastPrice = apiResp[r].Data.TokenData[name].LastPrice

(***************************************************************************)
(* The calls of one handleIngest on the store (specification Spec).        *)
(***************************************************************************)
\* The rows of call r that the store holds, in the order in which it got them.
Executed(r) == IF tx[r].state = "committed" THEN Visible(r, TableOf(r)) ELSE tx[r].rows

Count(r, op, ok) == Cardinality({i \in DOMAIN calls[r] : calls[r][i] = Call(op, ok)})

\* C24: the rows that a call has executed are the first rows of its input,
\* in the order of the input: row i is executed before row i + 1, none is
\* left out and none comes twice.  For an events payload that is an array
\* the input is the array; for market data it is the range over TokenData.
C24_RowsExecutedInInputOrder ==
    \A r \in Reqs :
        /\ Len(Executed(r)) <= Len(RowsOf(r))
        /\ \A i \in DOMAIN Executed(r) : Executed(r)[i] = RowsOf(r)[i]
        /\ tx[r].state \in {"open", "committed"} => Len(Executed(r)) = Count(r, "Exec", TRUE)
        /\ tx[r].state = "committed" => Executed(r) = RowsOf(r)
        /\ svc[r] = "events" /\ body[r].t = "array" =>
              \A i \in DOMAIN Executed(r) : Executed(r)[i] = UnmarshalEvent(body[r].v[i]).v

\* An array of two different events, both committed, the first one first.
C24_Witness ==
    \E r \in Reqs :
        /\ svc[r] = "events" /\ body[r] = JArr(<<EventOne, EventTwo>>)
        /\ tx[r].state = "committed"
        /\ Len(Visible(r, "events")) = 2
        /\ Visible(r, "events")[1] = UnmarshalEvent(EventOne).v
        /\ Visible(r, "events")[1] # Visible(r, "events")[2]

Attempts(r, op) == Cardinality({i \in DOMAIN calls[r] : calls[r][i].op = op})

\* C25: a call begins, prepares and commits at most once and executes the
\* insert of a row at most once; the first step that fails is the last one
\* but for the rollback: no insert and no commit comes after it, and the
\* handler has answered 500.
C25_NoRetryFailFast ==
    \A r \in Reqs :
        /\ \A op \in {"Begin", "Prepare", "Commit", "Rollback"} : Attempts(r, op) <= 1
        /\ Attempts(r, "Exec") <= Len(RowsOf(r))
        /\ Attempts(r, "Exec") <= n[r] + 1
        /\ \A i \in DOMAIN calls[r] :
              ~calls[r][i].ok =>
                  /\ \A j \in (i + 1)..Len(calls[r]) : calls[r][j].op = "Rollback"
                  /\ resp[r].status = 500 /\ pc[r] = "done"

\* The second insert of a call has failed: one attempt for each of the two
\* rows, then the rollback and 500.
C25_Witness ==
    \E r \in Reqs :
        /\ calls[r] = <<Call("Begin", TRUE), Call("Prepare", TRUE), Call("Exec", TRUE),
                        Call("Exec", FALSE), Call("Rollback", TRUE)>>
        /\ resp[r].status = 500

(***************************************************************************)
(* The scope of the sentinel (specification SpecMarket).                   *)
(***************************************************************************)
\* C27: a last trade time other than the sentinel is parsed as it is given,
\* one second after the sentinel and the sentinel followed by a space
\* included, and the timestamp of a snapshot is parsed as it is given even
\* when it is the sentinel string.
C27_SentinelOnlyInLastTradeTime ==
    \A r \in Market :
        \A i \in DOMAIN Written(r) :
            LET given == TokenData(r)[order[r][i]]
                row == Written(r)[i]
            IN /\ given.LastTradeTime # Sentinel =>
                     row.LastTradeTime = timeParse(given.LastTradeTime).t
               /\ given.LastTradeTime = NearSentinel =>
                     row.LastTradeTime = Date(1970, 1, 1, 5, 30, 1, 0)
               /\ given.LastTradeTime = Sentinel \o <<" ">> => row.LastTradeTime = ZeroTime
               /\ row.Timestamp = timeParse(given.Timestamp).t
               /\ given.Timestamp = Sentinel => row.Timestamp = Date(1970, 1, 1, 5, 30, 0, 0)

\* Two committed rows: one with the sentinel as timestamp, kept at 05:30:00,
\* and a last trade time one second after the sentinel, kept as well; one
\* with the sentinel followed by a space as last trade time.
C27_Witness ==
    \E r \in Market :
        /\ tx[r].state = "committed"
        /\ \E i \in DOMAIN Written(r) :
              /\ TokenData(r)[order[r][i]].Timestamp = Sentinel
              /\ Written(r)[i].Timestamp = Date(1970, 1, 1, 5, 30, 0, 0)
              /\ Written(r)[i].LastTradeTime = Date(1970, 1, 1, 5, 30, 1, 0)
        /\ \E i \in DOMAIN Written(r) :
              /\ TokenData(r)[order[r][i]].LastTradeTime = Sentinel \o <<" ">>
              /\ Written(r)[i].LastTradeTime = ZeroTime

(***************************************************************************)
(* No deduplication (specification Spec).                                  *)
(***************************************************************************)
Times(x, rows) == Cardinality({i \in DOMAIN rows : rows[i] = x})

CommittedTo(t) == {r \in Reqs : tx[r].state = "committed" /\ TableOf(r) = t}

RECURSIVE TimesIn(_, _)
TimesIn(x, S) ==
    IF S = {} THEN 0
    ELSE LET r == CHOOSE q \in S : TRUE IN Times(x, RowsOf(r)) + TimesIn(x, S \ {r})

RECURSIVE RowCount(_)
RowCount(S) ==
    IF S = {} THEN 0
    ELSE LET r == CHOOSE q \in S : TRUE IN Len(RowsOf(r)) + RowCount(S \ {r})

\* C28: a table holds each row as many times as the calls committed to it
\* were given it: every committed call has added all its rows, whether the
\* table held equal rows or not, so that a payload committed twice has each
\* of its rows twice in the table.
C28_NoDeduplication ==
    \A t \in DOMAIN table :
        /\ Len(table[t]) = RowCount(CommittedTo(t))
        /\ \A p \in DOMAIN table[t] :
              Times(table[t][p].row, Rows(table[t])) = TimesIn(table[t][p].row, CommittedTo(t))
        /\ \A r, q \in CommittedTo(t) :
              r # q /\ body[r] = body[q] =>
                  \A i \in DOMAIN RowsOf(r) :
                      Times(RowsOf(r)[i], Rows(table[t])) >= 2 * Times(RowsOf(r)[i], RowsOf(r))

\* The same envelope of two instruments committed by two calls: four rows.
C28_Witness ==
    \E r, q \in CommittedTo("market_data") :
        /\ r # q /\ body[r] = body[q] /\ Len(RowsOf(r)) = 2
        /\ Len(table.market_data) = 4
        /\ resp[r].status = 202 /\ resp[q].status = 202

(***************************************************************************)
(* The end of the transaction (specification Spec).                        *)
(***************************************************************************)
Begun(r) == Call("Begin", TRUE) \in {calls[r][i] : i \in DOMAIN calls[r]}

Finished(r) == Attempts(r, "Commit") + Attempts(r, "Rollback")

\* C30: a call ends its transaction at most once, by one Commit or by one
\* Rollback and never by both, and nothing is called on the transaction
\* after that; a handler that has begun a transaction and has returned has
\* ended it; a call whose Begin has failed calls neither.
C30_TransactionFinishedOnce ==
    \A r \in Reqs :
        /\ Finished(r) <= 1
        /\ \A i \in DOMAIN calls[r] :
              calls[r][i].op \in {"Commit", "Rollback"} => i = Len(calls[r])
        /\ Begun(r) /\ pc[r] = "done" => Finished(r) = 1
        /\ ~Begun(r) => Finished(r) = 0 /\ Attempts(r, "Exec") = 0 /\ Attempts(r, "Prepare") = 0
        /\ Finished(r) = 1 => Begun(r) /\ pc[r] = "done"

\* One call has ended with a failed Commit and no Rollback, one with a
\* Rollback and no Commit, and the Begin of neither has failed.
C30_Witness ==
    \E r, q \in Reqs :
        /\ pc[r] = "done" /\ pc[q] = "done" /\ Begun(r) /\ Begun(q)
        /\ calls[r][Len(calls[r])] = Call("Commit", FALSE) /\ Attempts(r, "Rollback") = 0
        /\ calls[q][Len(calls[q])].op = "Rollback" /\ Attempts(q, "Commit") = 0

(***************************************************************************)
(* The deadline of a call (specification SpecStall).                       *)
(***************************************************************************)
\* C26 as stated: a call runs under a deadline: a transaction that is open
\* is ended, by the commit of all its rows or, when the store does not
\* answer in time, by a rollback, and no row of an unfinished call is
\* committed.
C26_DeadlineEndsTransaction ==
    \A r \in Reqs :
        /\ [](tx[r].state = "open" => <>(tx[r].state \in {"committed", "rolledback", "failed"}))
        /\ [](tx[r].state # "committed" => Visible(r, TableOf(r)) = <<>>)

(***************************************************************************)
(* The schema statement run again (specification SpecInstances).           *)
(***************************************************************************)
\* C29: the schema statement of an instance, whenever it runs and whatever
\* instances have run it before or serve at that time, leaves every row of
\* every table as it is and leaves the tables that exist, with at most its
\* own table added; run on a store that has its table it changes nothing.
C29_SchemaInitIdempotent ==
    [][\A service \in Services :
          proc[service] = "start" /\ proc'[service] # "start" =>
              /\ table' = table
              /\ schema \subseteq schema' /\ schema' \subseteq schema \cup {TableName(service)}
              /\ TableName(service) \in schema => schema' = schema
              /\ proc'[service] = "initialized" => TableName(service) \in schema']_vars

\* An instance of the events service has run its schema statement on a
\* table that holds the row of an earlier run and a row committed through
\* an instance started before it, and both rows are there.
C29_Witness ==
    /\ proc["events"] = "initialized"
    /\ Len(table.events) >= 2
    /\ table.events[1].call = 0
    /\ \E r \in Reqs : Visible(r, "events") # <<>>

(***************************************************************************)
(* A lastTradeTime that does not parse (specification SpecMarket).         *)
(***************************************************************************)
\* C31: a lastTradeTime that does not parse in "2006-01-02 15:04:05", an
\* absent or empty one included, never fails the envelope: the row of that
\* instrument carries the zero time as last trade time, the rows of the
\* other instruments carry the time written in their string, and the
\* envelope is refused only for a failure of the store: it is answered 202,
\* with one row committed for each instrument, exactly when begin, prepare,
\* every insert and the commit have succeeded.
C31_LastTradeTimeNeverFailsEnvelope ==
    \A r \in Market :
        /\ \A i \in DOMAIN Written(r) :
              LET s == TokenData(r)[order[r][i]].LastTradeTime
                  t == Written(r)[i].LastTradeTime
              IN IF s = Sentinel THEN t = timeParse(EpochMidnight).t
                 ELSE IF WellFormed(s)
                      THEN /\ t # ZeroTime
                           /\ <<t.Y, t.M, t.D, t.h, t.m, t.s>> =
                                 <<Atoi(s, 1, 4), Atoi(s, 6, 7), Atoi(s, 9, 10),
                                   Atoi(s, 12, 13), Atoi(s, 15, 16), Atoi(s, 18, 19)>>
                      ELSE t = ZeroTime
        /\ (\E x \in DOMAIN TokenData(r) : ~WellFormed(TokenData(r)[x].LastTradeTime)) =>
              /\ resp[r].status = 202 <=> (pc[r] = "done" /\ AllOk(r))
              /\ resp[r].status = 202 => Len(Visible(r, "market_data")) = Cardinality(DOMAIN TokenData(r))
              /\ resp[r].status \notin {0, 202} => resp[r].status = 500 /\ ~AllOk(r)

\* An accepted envelope of two instruments: the first row written is of an
\* instrument without lastTradeTime and carries the zero time, the second is
\* of an instrument whose lastTradeTime is well formed.
C31_Witness ==
    \E r \in Market :
        /\ resp[r].status = 202 /\ Len(Visible(r, "market_data")) = 2
        /\ TokenData(r)[order[r][1]].LastTradeTime = <<>>
        /\ Visible(r, "market_data")[1].LastTradeTime = ZeroTime
        /\ TokenData(r)[order[r][2]].LastTradeTime = LttNifty
        /\ Visible(r, "market_data")[2].LastTradeTime # ZeroTime

(***************************************************************************)
(* An envelope without instruments (specification SpecMarket).             *)
(***************************************************************************)
\* The market requests whose body decodes to an envelope without
\* instruments: token_data empty, null or absent.
NoInstruments ==
    {r \in Reqs : /\ svc[r] = "marketdata"
                  /\ UnmarshalApiResponse(body[r]).err = Nil
                  /\ DOMAIN UnmarshalApiResponse(body[r]).v.Data.TokenData = {}}

OnDayOf(t, u) == Date(t.Y, t.M, t.D, u.h, u.m, u.s, u.ns)

\* Of the days of GateInstants, 1 February 2025 is a Saturday; the others
\* are days from Monday to Friday.
GateWeekend(t) == <<t.Y, t.M, t.D>> = <<2025, 2, 1>>

\* C33: on whatever day the poller was started, the gate asked at t on a
\* Monday to Friday answers true exactly when t is after the configured
\* start and before the configured end taken on the calendar day of t, and
\* on a weekend false: the day of the start does not enter, in the same
\* month, across the end of a month or across the end of a year.
C33_WindowOnCurrentDay ==
    \A e \in poller.seen :
        e.open <=> /\ ~GateWeekend(e.at)
                   /\ After(e.at, OnDayOf(e.at, cfg.StartTime))
                   /\ Before(e.at, OnDayOf(e.at, cfg.EndTime))

\* A poller started on 2024-12-31 with the window 09:15-15:30 has found the
\* market open on 2025-01-01 at 12:00 and on 2025-02-03 at 09:16.
C33_Witness ==
    /\ cfg.loaded
    /\ <<cfg.StartTime.Y, cfg.StartTime.M, cfg.StartTime.D, cfg.StartTime.h, cfg.StartTime.m>> = <<2024, 12, 31, 9, 15>>
    /\ [at |-> Date(2025, 1, 1, 12, 0, 0, 0), open |-> TRUE] \in poller.seen
    /\ [at |-> Date(2025, 2, 3, 9, 16, 0, 0), open |-> TRUE] \in poller.seen

(***************************************************************************)
(* The order of the steps of a cycle (specification SpecPoller).           *)
(***************************************************************************)
\* The calls of the running cycle to the upstream API and to the market
\* ingest, by their place in poller.sent.
Fetches == {i \in DOMAIN poller.sent : poller.sent[i].url = "UpstoxURL"}

Ingests == {i \in DOMAIN poller.sent : poller.sent[i].url = "IngestMarketURL"}

\* C34: in a cycle the gate is asked first, then the upstream API is
\* fetched, then its body is posted to the market ingest.  There is at most
\* one fetch and one ingest POST; a fetch comes after the gate has answered
\* true; the ingest POST comes after the fetch of the same cycle, which has
\* returned status 200 with its body read, and it carries that body; after a
\* fetch that failed, was not read or had another status there is no ingest
\* POST and the cycle is over.
C34_GateThenFetchThenIngest ==
    /\ Cardinality(Fetches) <= 1 /\ Cardinality(Ingests) <= 1
    /\ \A i \in Fetches :
          /\ i = 2 /\ poller.sent[1] = logEvent("INFO", "Attempting to fetch data")
          /\ poller.open /\ [at |-> now, open |-> TRUE] \in poller.seen
          /\ (poller.sent[i].status # 200 \/ poller.sent[i].body = NoBody) =>
                Ingests = {} /\ poller.pc \in {"wait", "cycle"}
    /\ \A j \in Ingests :
          \E i \in Fetches :
              /\ j = i + 1
              /\ poller.sent[i].status = 200 /\ poller.sent[i].body # NoBody
              /\ poller.sent[j].body = poller.sent[i].body
    /\ poller.pc = "ingest" =>
          Fetches # {} /\ Ingests = {} /\ poller.sent[Len(poller.sent)].status = 200

\* A cycle over with the fetch answered 200 and its body, which is not
\* JSON, posted to the market ingest, after a cycle with the gate closed.
C34_Witness ==
    /\ poller.pc = "wait" /\ poller.cycles = 2
    /\ Len(poller.sent) = 4
    /\ poller.sent[2] = Get("UpstoxURL", 200, JInvalid)
    /\ poller.sent[3].url = "IngestMarketURL" /\ poller.sent[3].body = JInvalid
    /\ \E e \in poller.seen : ~e.open

(***************************************************************************)
(* One cycle at a time (specification SpecPoller).                         *)
(***************************************************************************)
\* C35: cycles do not overlap.  The first cycle is entered from loadConfig,
\* without a tick; every later one is entered from the wait for the ticker,
\* that is after the cycle before it has returned; a cycle is never entered
\* while the fetch or the ingest of another is under way, and the cycles
\* are counted one by one as they start.
C35_CyclesDoNotOverlap ==
    /\ [][(poller'.pc = "cycle" /\ poller.pc # "cycle") =>
             IF poller.cycles = 0 THEN poller.pc = "load" ELSE poller.pc = "wait"]_vars
    /\ [][poller'.cycles # poller.cycles =>
             /\ poller.pc = "cycle" /\ poller'.pc \in {"fetch", "wait"}
             /\ poller'.cycles = poller.cycles + 1]_vars
    /\ [](poller.pc \in {"fetch", "ingest"} => poller.cycles >= 1 /\ poller.open)
    /\ [](poller.pc = "load" => poller.cycles = 0 /\ poller.sent = <<>>)

\* The second cycle is posting to the market ingest, the first has returned
\* with the gate closed.
C35_Witness ==
    /\ poller.pc = "ingest" /\ poller.cycles = 2
    /\ \E e \in poller.seen : ~e.open

(***************************************************************************)
(* The on-demand fetch (specification SpecFetch).                          *)
(***************************************************************************)
Gets(st) ==
    {i \in DOMAIN fetch.sent : fetch.sent[i].url = "UpstoxURL" /\ fetch.sent[i].status = st}

Posts == {i \in DOMAIN fetch.sent : fetch.sent[i].url = "IngestMarketURL"}

\* C36: handleFetch answers 200 only if, in that request, the upstream API
\* has answered 200 and the market ingest, posted to after that, has
\* answered 202; a POST whose body has no instruments is answered 400 with
\* no call made at all; after an upstream answer other than 200 the request
\* is over with that status and without a POST to the market ingest.
C36_SuccessOnlyAfterFetchAndIngest ==
    /\ fetch.status = 200 =>
          /\ ~fetch.panicked
          /\ \E i \in Gets(200) : \E j \in Posts : i < j /\ fetch.sent[j].status = 202
    /\ (fetch.pc # "idle" /\ fetch.method = "POST" /\ fetch.body \in NoInstrumentBodies) =>
          fetch.pc = "done" /\ fetch.status = 400 /\ fetch.sent = <<>>
    /\ \A i \in DOMAIN fetch.sent :
          (fetch.sent[i].url = "UpstoxURL" /\ fetch.sent[i].status \notin {0, 200}) =>
              /\ Posts = {}
              /\ fetch.pc = "done" /\ fetch.status = fetch.sent[i].status

\* A request for two instruments answered 200 after the fetch and the
\* ingest, following one without instruments that was answered 400.
C36_Witness ==
    /\ fetch.pc = "done" /\ fetch.status = 200 /\ Len(fetch.instruments) = 2
    /\ Gets(200) # {} /\ Posts # {}
    /\ fetch.answered = <<400>>

(***************************************************************************)
(* database.Connect (specification SpecConnect).                           *)
(***************************************************************************)
Returned == {service \in Services : db[service].pc = "returned"}

AllFailed(pings) == \A i \in DOMAIN pings : ~pings[i]

\* What holds of Connect with and without the branch of sql.Open: at most
\* five pings; the pool is returned at the first ping that succeeds, with
\* no ping after it; the pool and the error are never returned together.
PingsBounded ==
    \A service \in Services :
        /\ Len(db[service].pings) <= 5
        /\ \A i \in DOMAIN db[service].pings :
              db[service].pings[i] =>
                  i = Len(db[service].pings) /\ db[service].pc = "returned" /\ db[service].pool
        /\ db[service].pool <=>
              (db[service].pings # <<>> /\ db[service].pings[Len(db[service].pings)])
        /\ db[service].pool => db[service].err = Nil
        /\ db[service].pc # "returned" => ~db[service].pool /\ db[service].err = Nil

\* C37 as stated: Connect returns an error, and no pool, exactly when all
\* five pings have failed.
C37_ErrorIffFivePingsFailed ==
    /\ PingsBounded
    /\ \A service \in Returned :
          (db[service].err # Nil /\ ~db[service].pool) <=>
              (Len(db[service].pings) = 5 /\ AllFailed(db[service].pings))

\* C37 amended: Connect ends after at most five pings; it returns the pool
\* at the first ping that succeeds; it returns an error, and no pool,
\* exactly when sql.Open has failed, in which case it has not pinged at
\* all, or when all five pings have failed.
C37_ErrorIffOpenOrFivePingsFailed ==
    /\ PingsBounded
    /\ \A service \in Returned :
          /\ db[service].pool \/ db[service].err # Nil
          /\ (db[service].err # Nil /\ ~db[service].pool) <=>
                \/ db[service].pings = <<>>
                \/ Len(db[service].pings) = 5 /\ AllFailed(db[service].pings)
          /\ db[service].pings = <<>> => db[service].err.kind = "failed to open clickhouse db"
          /\ db[service].sleeps = Cardinality({i \in DOMAIN db[service].pings : ~db[service].pings[i]})
    /\ \A service \in Services :
          proc[service] \in {"initialized", "serving"} => db[service].pool

\* One service has the pool from its third ping, and serves; the other has
\* the error of five failed pings, and its main has exited.
C37_Witness ==
    /\ db["events"].pings = <<FALSE, FALSE, TRUE>> /\ proc["events"] = "serving"
    /\ db["marketdata"].pings = <<FALSE, FALSE, FALSE, FALSE, FALSE>>
    /\ db["marketdata"].err # Nil /\ proc["marketdata"] = "exited"

(***************************************************************************)
(* The counters of the load tester (specification SpecLoad).               *)
(***************************************************************************)
\* The workers of a kind that have counted their outcome.
Counted(kind) ==
    {w \in DOMAIN load.worker : load.worker[w].kind = kind /\ load.worker[w].pc # "running"}

\* The counters that differ between two readings.
Changed(a, b) == {k \in DOMAIN a : a[k] # b[k]}

\* C38: however the workers interleave, every ingest worker adds
\* eventsPerBatch to ingestSuccess or to ingestFailure, once and to one of
\* them, and every query worker adds 1 to querySuccess or to queryFailure;
\* main reads the counters when all workers have finished, so that what it
\* prints satisfies ingestSuccess + ingestFailure = numIngestBatches *
\* eventsPerBatch and querySuccess + queryFailure = numQueries.
C38_CountersAddUp ==
    /\ [](/\ load.counters.ingestSuccess + load.counters.ingestFailure =
                Cardinality(Counted("ingest")) * load.eventsPerBatch
          /\ load.counters.querySuccess + load.counters.queryFailure =
                Cardinality(Counted("query"))
          /\ load.pc = "done" =>
                /\ \A w \in DOMAIN load.worker : load.worker[w].pc = "done"
                /\ Len(load.worker) = load.numQueries + load.numIngestBatches
                /\ load.printed = load.counters
                /\ load.printed.ingestSuccess + load.printed.ingestFailure =
                      load.numIngestBatches * load.eventsPerBatch
                /\ load.printed.querySuccess + load.printed.queryFailure = load.numQueries)
    /\ [][/\ Cardinality(Changed(load.counters, load'.counters)) <= 1
          /\ \A w \in DOMAIN load.worker :
                (load.worker[w].pc = "running" /\ load'.worker[w].pc # "running") =>
                    IF load.worker[w].kind = "ingest"
                    THEN \E k \in {"ingestSuccess", "ingestFailure"} :
                            load'.counters = [load.counters EXCEPT ![k] = @ + load.eventsPerBatch]
                    ELSE \E k \in {"querySuccess", "queryFailure"} :
                            load'.counters = [load.counters EXCEPT ![k] = @ + 1]
          /\ (\A w \in DOMAIN load.worker :
                 load.worker[w].pc = "running" => load'.worker[w].pc = "running") =>
                load'.counters = load.counters]_vars

\* Two batches of three events and two queries: main has printed three
\* events ingested and three failed, one query answered and one failed.
C38_Witness ==
    /\ load.pc = "done"
    /\ load.numIngestBatches = 2 /\ load.eventsPerBatch = 3 /\ load.numQueries = 2
    /\ load.printed = [querySuccess |-> 1, queryFailure |-> 1, ingestSuccess |-> 3, ingestFailure |-> 3]

====
